---------------------------- MODULE Spec2Model ----------------------------
(***************************************************************************)
(* A model of the Attio search engine scripts:                             *)
(*   src/sync_attio.py      the ingestion pipeline (V39)                   *)
(*   src/ai_studio_code.py  the earlier ingestion variant                  *)
(*   src/app.py             the search UI and its snippet generator        *)
(*                                                                         *)
(* The scripts are sequential.  Every function of the scripts is an        *)
(* operator that computes what the function computes from its arguments    *)
(* and from the answers of the outside world (the source API, the store),  *)
(* which are given to it as data.  The actions apply the operators; each   *)
(* component has its own specification.                                    *)
(***************************************************************************)
EXTENDS Integers, Sequences, FiniteSets, TLC

VARIABLES
    attio_index,   \* the store's table "attio_index": a sequence of rows
    upsert_log,    \* history: every upsert().execute() attempted, in order
    u_pc,          \* safe_upsert harness: "ready" | "returned"
    u_items,       \* safe_upsert harness: the batch handed to safe_upsert
    r_pc,          \* fetch harness: "ready" | "returned"
    r_fn,          \* fetch harness: the helper called, "make_request" | "attio_get"
    r_answers,     \* fetch harness: the API's answers to the successive HTTP requests
    r_out,         \* fetch harness: what the helper handed to its caller
    n_pc,          \* snippet harness: "ready" | "returned"
    n_text,        \* snippet harness: the content handed to get_context_snippet
    n_query,       \* snippet harness: the query
    n_window,      \* snippet harness: the window
    n_out,         \* snippet harness: the locals and the result of the call
    ss_page,       \* app.py: st.session_state.page
    ss_last_query, \* app.py: st.session_state.last_query
    q_query,       \* app.py: the text of the search field
    q_types,       \* app.py: the selected types
    q_matches,     \* the store: how many rows match the search
    q_view,        \* app.py: what the last run of the script rendered
    q_count,       \* app.py: count of the last run
    q_start,       \* app.py: start of the last run
    q_log,         \* history: the queries the last run sent to the store
    q_buttons,     \* app.py: the pagination buttons the last run rendered
    q_rerun,       \* app.py: st.rerun() was called and the script has not rerun yet
    s_script,      \* ingestion: the script run, "sync_attio" | "ai_studio_code"
    s_secrets,     \* ingestion: which of the three secrets the environment sets
    s_pc,          \* ingestion: the position of the script
    s_exit,        \* ingestion: the exit code of the process, Running before it ends
    s_source,      \* the source dataset the API serves
    s_cap,         \* the store: the longest batch it saves within its statement timeout
    s_faults,      \* how many more calls of the API may fail
    request_log,   \* history: the calls of make_request / attio_get of this run
    NAME_CACHE,    \* sync_attio.py: NAME_CACHE
    s_run,         \* the number of the run, 1 or 2
    s_first,       \* the table as the first run left it
    s_first_cap    \* the store's cap during the first run

uvars == <<u_pc, u_items>>
rvars == <<r_pc, r_fn, r_answers, r_out>>
nvars == <<n_pc, n_text, n_query, n_window, n_out>>
qvars == <<ss_page, ss_last_query, q_query, q_types, q_matches, q_view, q_count,
          q_start, q_log, q_buttons, q_rerun>>
svars == <<s_script, s_secrets, s_pc, s_exit, s_source, s_cap, s_faults,
          request_log, NAME_CACHE, s_run, s_first, s_first_cap>>
vars == <<attio_index, upsert_log, u_pc, u_items, r_pc, r_fn, r_answers, r_out,
          n_pc, n_text, n_query, n_window, n_out,
          ss_page, ss_last_query, q_query, q_types, q_matches, q_view, q_count,
          q_start, q_log, q_buttons, q_rerun,
          s_script, s_secrets, s_pc, s_exit, s_source, s_cap, s_faults,
          request_log, NAME_CACHE, s_run, s_first, s_first_cap>>

(***************************************************************************)
(* Bounds of the model.                                                    *)
(***************************************************************************)
MaxBatch == 3          \* longest batch handed to safe_upsert on its own
MaxBisect == 4         \* longest batch handed to safe_upsert under outcome classes
RecursionLimit == 4    \* nested make_request calls the interpreter allows (scaled)
MaxWindow == 3         \* largest small window handed to get_context_snippet
MaxEntities == 4       \* most records of one kind the source holds
MaxFaults == 1         \* most API calls of one run that fail
NotesLimit == 2        \* sync_notes_cached's limit (1000 in the code), scaled down
StandardLimit == 2     \* sync_standard's limit (200 in the code), scaled down
PeopleLimit == 2       \* sync_transcripts_smart's limit (100 in the code), scaled down
MaxPeopleScan == 4     \* MAX_PEOPLE_SCAN (1000 in the code), scaled down
ScanFaults == 2        \* most API calls of one transcript scan that fail or fall short

(***************************************************************************)
(* Values.                                                                 *)
(***************************************************************************)
None == "None"         \* Python's None / JSON null

Min(a, b) == IF a < b THEN a ELSE b
Max(a, b) == IF a > b THEN a ELSE b

SeqToSet(s) == {s[i] : i \in DOMAIN s}

(***************************************************************************)
(* The store.  An upsert either succeeds or raises an exception whose      *)
(* message is one of these; the script reads only str(e).  A message is    *)
(* the set of words it is made of; OK stands for "no exception".           *)
(***************************************************************************)
OK == {}
ErrStatementTimeout == {"57014", "canceling", "statement"}
ErrReadTimeout      == {"The", "read", "operation", "Timed", "out", "ReadTimeout"}
ErrBadGateway       == {"502", "Bad", "Gateway"}
ErrDuplicateRow     == {"21000", "ON", "CONFLICT", "DO", "UPDATE"}
StoreErrors == {ErrStatementTimeout, ErrReadTimeout, ErrBadGateway, ErrDuplicateRow}
StoreOutcomes == {OK} \cup StoreErrors

\* str.lower() on the words that occur in the messages
Lower(w) ==
    CASE w = "ReadTimeout" -> "readtimeout"
      [] w = "Timed" -> "timed"
      [] w = "The" -> "the"
      [] w = "Bad" -> "bad"
      [] w = "Gateway" -> "gateway"
      [] w = "ON" -> "on"
      [] w = "CONFLICT" -> "conflict"
      [] w = "DO" -> "do"
      [] w = "UPDATE" -> "update"
      [] OTHER -> w

\* `needle in word`, for the needles the script looks for
Contains(w, needle) ==
    \/ w = needle
    \/ needle = "timeout" /\ w = "readtimeout"

\* `needle in error_str`
InMessage(msg, needle) == \E w \in msg : Contains(w, needle)
InLowerMessage(msg, needle) == \E w \in msg : Contains(Lower(w), needle)

\* src/sync_attio.py:68
IsTimeoutError(msg) ==
    InMessage(msg, "57014") \/ InLowerMessage(msg, "timeout") \/ InMessage(msg, "502")

(***************************************************************************)
(* Rows.  A row is a record with the fields id, type, title, content and   *)
(* metadata; metadata is a function from keys to values.                   *)
(***************************************************************************)
\* src/sync_attio.py:59  {k: v for k, v in item["metadata"].items() if v is not None}
CleanMetadata(m) == [k \in {x \in DOMAIN m : m[x] # None} |-> m[k]]

\* src/sync_attio.py:57-59
CleanItem(item) == [item EXCEPT !.metadata = CleanMetadata(item.metadata)]
CleanItems(items) == [i \in DOMAIN items |-> CleanItem(items[i])]

Ids(items) == {items[i].id : i \in DOMAIN items}
HasDuplicateIds(items) == \E i, j \in DOMAIN items : i # j /\ items[i].id = items[j].id

\* The position of the row with this id in the table, 0 when there is none
IndexOfId(tbl, id) ==
    IF \E i \in DOMAIN tbl : tbl[i].id = id
    THEN CHOOSE i \in DOMAIN tbl : tbl[i].id = id /\ \A j \in DOMAIN tbl : tbl[j].id = id => i <= j
    ELSE 0

\* an insert that never looks for the row's id
InsertRow(tbl, row) == Append(tbl, row)

\* upsert of one row, keyed by id alone: overwrite in place, or insert
UpsertRow(tbl, row) ==
    IF IndexOfId(tbl, row.id) = 0
    THEN Append(tbl, row)
    ELSE [tbl EXCEPT ![IndexOfId(tbl, row.id)] = row]

RECURSIVE UpsertRows(_, _)
\* src/sync_attio.py:62  supabase.table("attio_index").upsert(items).execute(), when it succeeds
UpsertRows(tbl, items) ==
    IF items = <<>> THEN tbl
    ELSE UpsertRows(UpsertRow(tbl, Head(items)), Tail(items))

(***************************************************************************)
(* The store's answers.  env.script gives the outcome of the k-th upsert   *)
(* of a call from outside; past the script the store rejects a batch that  *)
(* names an id twice and times out on a batch longer than env.cap.         *)
(***************************************************************************)
StoreExecute(env, batch, k) ==
    IF k <= Len(env.script) THEN env.script[k]
    ELSE IF HasDuplicateIds(batch) THEN ErrDuplicateRow
    ELSE IF Len(batch) > env.cap THEN ErrStatementTimeout
    ELSE OK

\* mid = len(items) // 2, rounded up instead
SplitPointUp(n) == (n + 1) \div 2

\* mid = 1: one row is peeled off instead of half the batch
SplitPointOne(n) == 1

\* src/sync_attio.py:74
SplitPoint(n) == n \div 2

(***************************************************************************)
(* safe_upsert.  st = [tbl, log, k]: the table, the attempts so far and    *)
(* the number of attempts this call has made; depth is the recursion       *)
(* depth of this call.                                                     *)
(***************************************************************************)
RECURSIVE safe_upsert(_, _, _, _)
\* src/sync_attio.py:48-80
safe_upsert(items, env, st, depth) ==
    IF items = <<>> THEN st
    ELSE
      LET cleaned == CleanItems(items)
          out == StoreExecute(env, cleaned, st.k + 1)
          st1 == [tbl |-> IF out = OK THEN UpsertRows(st.tbl, cleaned) ELSE st.tbl,
                  log |-> Append(st.log, [batch |-> cleaned, outcome |-> out, depth |-> depth]),
                  k |-> st.k + 1]
      IN IF out = OK THEN st1
         ELSE IF IsTimeoutError(out)
              THEN IF Len(cleaned) <= 1 THEN st1
                   ELSE LET mid == SplitPoint(Len(cleaned))
                            stA == safe_upsert(SubSeq(cleaned, 1, mid), env, st1, depth + 1)
                        IN safe_upsert(SubSeq(cleaned, mid + 1, Len(cleaned)), env, stA, depth + 1)
              ELSE st1

(***************************************************************************)
(* The source API.  An answer to one HTTP request is an exception of the   *)
(* requests library (exc) or a response with a status and a body.  A body  *)
(* is undecodable (response.json() raises), a JSON value that is no        *)
(* object ("notdict"), an object without "data" ("nodata") or an object    *)
(* whose "data" is a list ("data").                                        *)
(***************************************************************************)
Body(kind, data) == [kind |-> kind, data |-> data]
NoBody == Body("undecodable", <<>>)
Answer(exc, status, body) == [exc |-> exc, status |-> status, body |-> body]

RequestException == Answer(TRUE, 0, NoBody)
RateLimited == Answer(FALSE, 429, NoBody)
StatusAnswer(code) == Answer(FALSE, code, NoBody)
PageAnswer(data) == Answer(FALSE, 200, Body("data", data))

\* what a helper hands to its caller: a value, or an exception
Returned(v) == [raised |-> FALSE, value |-> v]
Raised == [raised |-> TRUE, value |-> <<>>]

\* a Response object, and None in its place
Response(ans) == [isNone |-> FALSE, status |-> ans.status, body |-> ans.body]
NoResponse == [isNone |-> TRUE, status |-> 0, body |-> NoBody]

\* bool(res): None is false, and requests.Response.__bool__ is Response.ok
Truthy(res) == ~res.isNone /\ res.status < 400

\* res.json().get("data", []): raises when the JSON value has no .get
GetDataRaises(res) == res.body.kind \in {"undecodable", "notdict"}
GetData(res) == IF res.body.kind = "data" THEN res.body.data ELSE <<>>

\* what make_request hands to its caller: res, or an exception; n counts the
\* HTTP requests the call has sent
Outcome(raised, res, n) == [raised |-> raised, res |-> res, n |-> n]

RECURSIVE make_request(_, _)
\* src/sync_attio.py:33-43, the body of the try.  answers[depth] is the API's
\* answer to the HTTP request of the depth-th nested call.  Past the
\* interpreter's recursion limit the call of requests.get/post raises
\* RecursionError before anything is sent.
make_request_try(answers, depth) ==
    IF depth > RecursionLimit THEN Outcome(TRUE, NoResponse, 0)
    ELSE LET ans == answers[depth]
         IN IF ans.exc THEN Outcome(TRUE, NoResponse, 1)
            ELSE IF ans.status = 429
                 THEN LET inner == make_request(answers, depth + 1)
                      IN Outcome(inner.raised, inner.res, inner.n + 1)
                 ELSE Outcome(FALSE, Response(ans), 1)

\* make_request without its try/except
make_request_bare(answers, depth) == make_request_try(answers, depth)

\* src/sync_attio.py:30-45: a bare except turns every exception into None
make_request(answers, depth) ==
    LET except(t) == IF t.raised THEN Outcome(FALSE, NoResponse, t.n) ELSE t
    IN except(make_request_try(answers, depth))

\* src/ai_studio_code.py:17-22, the body of the try
attio_get_try(ans) ==
    IF ans.exc THEN Raised
    ELSE IF ans.status # 200 THEN Returned(<<>>)
    ELSE IF GetDataRaises(Response(ans)) THEN Raised
    ELSE Returned(GetData(Response(ans)))

\* attio_get without its try/except
attio_get_bare(ans) == attio_get_try(ans)

\* src/ai_studio_code.py:13-25
attio_get(ans) ==
    LET except(t) == IF t.raised THEN Returned(<<>>) ELSE t
    IN except(attio_get_try(ans))

(***************************************************************************)
(* The source dataset.  Dataset(n, overlap, sort_supported) holds n       *)
(* people, MaxEntities-n companies, notes on people, companies and deals,  *)
(* tasks, meetings with call recordings, and the lists, objects, comments  *)
(* and calls ai_studio_code.py reads.  With overlap the ids of the         *)
(* different kinds are the same numbers; without it every kind has its own *)
(* range.  An API without sort_supported answers 400 to a people query     *)
(* that carries the sort key.                                              *)
(***************************************************************************)
Names == <<"Ada", "Bob", "Cyd", "Dee", "Eve", "Fay", "Gus", "Hal">>
NameOf(i) == Names[((i - 1) % Len(Names)) + 1]

KindBase(kind) ==
    CASE kind = "people" -> 100
      [] kind = "companies" -> 200
      [] kind = "deals" -> 300
      [] kind = "notes_people" -> 400
      [] kind = "notes_companies" -> 500
      [] kind = "notes_deals" -> 600
      [] kind = "tasks" -> 700
      [] kind = "meetings" -> 800
      [] kind = "recordings" -> 900
      [] kind = "lists" -> 1000
      [] kind = "entries" -> 1100
      [] kind = "objects" -> 1200
      [] kind = "comments" -> 1300
      [] kind = "calls" -> 1400

EntityId(overlap, kind, i) == IF overlap THEN i ELSE KindBase(kind) + i

\* an entity whose JSON lacks the id key has id 0
MissingId == 0
HasId(e) == e.id # MissingId

\* The values of a record: attribute slug -> the list of the values the
\* record holds for it.  An attribute the record lacks is not in the domain,
\* an attribute without a value has the empty list.  The shape rotates with
\* the record and the dataset, so that the datasets between them hold each
\* shape as the parent of a note and in a page of records.
RecordValues(n, slug, i) ==
    LET shape == (i + 2 * n + (IF slug = "companies" THEN 4 ELSE 0)) % 8
    IN CASE shape = 1 -> ("name" :> <<NameOf(i)>>)
         [] shape = 2 -> ("full_name" :> <<"Ada L">>)
         [] shape = 3 -> ("title" :> <<"CEO">>)
         [] shape = 4 -> ("name" :> <<NameOf(i)>>) @@ ("email_addresses" :> <<"a@x.io">>)
         [] shape = 5 -> ("company_name" :> <<"Acme">>)
         [] shape = 6 -> ("email_addresses" :> <<"b@x.io">>)
         [] shape = 7 -> ("name" :> <<>>) @@ ("email_addresses" :> <<"c@x.io">>)
         [] OTHER -> ("company_name" :> <<>>) @@ ("email_addresses" :> <<>>)

RecordEntity(n, overlap, slug, i) ==
    [id |-> EntityId(overlap, slug, i), values |-> RecordValues(n, slug, i)]

NoteEntity(overlap, slug, i) ==
    [id |-> EntityId(overlap, "notes_" \o slug, i),
     parent_record_id |-> IF i % 3 = 0 THEN MissingId ELSE EntityId(overlap, slug, i),
     title |-> CASE i % 4 = 1 -> "Untitled" [] i % 4 = 2 -> "Plan"
                 [] i % 4 = 3 -> "" [] OTHER -> None,
     content_plaintext |-> "memo",
     created_at |-> IF i % 2 = 1 THEN None ELSE "2024"]

TaskEntity(overlap, i) ==
    [id |-> EntityId(overlap, "tasks", i),
     content_plaintext |-> "call",
     is_completed |-> (i % 2 = 0),
     deadline_at |-> IF i % 2 = 1 THEN None ELSE "2025"]

ListEntity(overlap, i) ==
    [id |-> EntityId(overlap, "lists", i), name |-> "Leads", api_slug |-> "leads"]
EntryEntity(overlap, i) == [id |-> EntityId(overlap, "entries", i)]
ObjectEntity(overlap, i) ==
    [id |-> EntityId(overlap, "objects", i),
     api_slug |-> IF i = 1 THEN "people" ELSE "companies",
     singular_noun |-> IF i = 1 THEN "Person" ELSE "Company",
     description |-> ""]
CommentEntity(overlap, i) ==
    [id |-> EntityId(overlap, "comments", i), content_plaintext |-> "nice",
     author |-> IF i % 2 = 1 THEN None ELSE "Ada"]
\* the second call has a transcript attribute without a value
CallEntity(overlap, i) ==
    [id |-> EntityId(overlap, "calls", i),
     values |-> IF i % 2 = 1 THEN ("title" :> <<"Demo">>) @@ ("transcript" :> <<"hello">>)
                ELSE ("transcript" :> <<>>)]

\* person i has one meeting when i is odd; persons 1 and 3 share a meeting;
\* a meeting has one recording, and the recording of meeting 1 a transcript,
\* whose text is under another key from one dataset to the next
MeetingEntity(overlap, i) ==
    [id |-> EntityId(overlap, "meetings", IF i = 3 THEN 1 ELSE i), title |-> "Sync"]
MeetingsOf(overlap, i) ==
    IF i % 2 = 1 THEN <<MeetingEntity(overlap, i)>> ELSE <<>>
RecordingEntity(overlap, m) == [id |-> EntityId(overlap, "recordings", m)]
TranscriptOf(n) ==
    CASE n % 4 = 1 -> [content_plaintext |-> "hello", subtitles |-> None, text |-> None]
      [] n % 4 = 2 -> [content_plaintext |-> "", subtitles |-> "hi", text |-> None]
      [] n % 4 = 3 -> [content_plaintext |-> None, subtitles |-> None, text |-> "hi"]
      [] OTHER -> [content_plaintext |-> "", subtitles |-> None, text |-> ""]

RecordCount(n, slug) ==
    CASE slug = "people" -> n
      [] slug = "companies" -> MaxEntities - n
      [] slug = "deals" -> 0

NoteCount(n, slug) ==
    CASE slug = "people" -> MaxEntities - n
      [] slug = "companies" -> n
      [] slug = "deals" -> (n + 1) % (MaxEntities + 1)

Slugs == {"people", "companies", "deals"}

Dataset(n, overlap, sort_supported) ==
    [n |-> n,
     overlap |-> overlap,
     sort_supported |-> sort_supported,
     records |-> [slug \in Slugs |->
                    [i \in 1..RecordCount(n, slug) |-> RecordEntity(n, overlap, slug, i)]],
     notes |-> [slug \in Slugs |->
                    [i \in 1..NoteCount(n, slug) |-> NoteEntity(overlap, slug, i)]],
     tasks |-> [i \in 1..(n % 3) |-> TaskEntity(overlap, i)],
     lists |-> [i \in 1..Min(n, 1) |-> ListEntity(overlap, i)],
     entries |-> [i \in 1..(n % 2) |-> EntryEntity(overlap, i)],
     objects |-> [i \in 1..2 |-> ObjectEntity(overlap, i)],
     comments |-> [i \in 1..Min(n, 2) |-> CommentEntity(overlap, i)],
     calls |-> [i \in 1..(n % 3) |-> CallEntity(overlap, i)]]

\* seq[offset : offset + limit]
Page(seq, offset, limit) ==
    IF offset >= Len(seq) THEN <<>>
    ELSE SubSeq(seq, offset + 1, Min(offset + limit, Len(seq)))

(***************************************************************************)
(* The requests of sync_attio.py.  A request is a record [op, slug, id,    *)
(* offset, limit, sort]; op names the endpoint.                            *)
(***************************************************************************)
Request(op, slug, id, offset, limit, sort) ==
    [op |-> op, slug |-> slug, id |-> id, offset |-> offset, limit |-> limit, sort |-> sort]

\* the API's answer to a request when nothing fails
HealthyAnswer(data, req) ==
    CASE req.op = "people_query" ->
            IF req.sort /\ ~data.sort_supported THEN StatusAnswer(400)
            ELSE PageAnswer(Page(data.records["people"], req.offset, req.limit))
      [] req.op = "meetings" ->
            PageAnswer(IF \E i \in DOMAIN data.records["people"] :
                              data.records["people"][i].id = req.id
                       THEN MeetingsOf(data.overlap,
                                CHOOSE i \in DOMAIN data.records["people"] :
                                    data.records["people"][i].id = req.id)
                       ELSE <<>>)
      [] req.op = "recordings" ->
            PageAnswer(<<RecordingEntity(data.overlap,
                            req.id - EntityId(data.overlap, "meetings", 0))>>)
      [] req.op = "transcript" ->
            IF req.id # EntityId(data.overlap, "recordings", 1) THEN StatusAnswer(404)
            ELSE Answer(FALSE, 200, Body("object", TranscriptOf(data.n)))
      [] req.op = "notes" ->
            PageAnswer(Page(data.notes[req.slug], req.offset, req.limit))
      [] req.op = "record" ->
            IF \E i \in DOMAIN data.records[req.slug] : data.records[req.slug][i].id = req.id
            THEN Answer(FALSE, 200,
                        Body("object", CHOOSE e \in SeqToSet(data.records[req.slug]) : e.id = req.id))
            ELSE StatusAnswer(404)
      [] req.op = "records_query" ->
            PageAnswer(Page(data.records[req.slug], req.offset, req.limit))
      [] req.op = "tasks" -> PageAnswer(data.tasks)
      [] req.op = "lists" -> PageAnswer(data.lists)
      [] req.op = "entries" -> PageAnswer(data.entries)
      [] req.op = "objects" -> PageAnswer(data.objects)
      [] req.op = "records" ->
            IF req.slug \in Slugs
            THEN PageAnswer(Page(data.records[req.slug], 0, req.limit))
            ELSE IF data.calls = <<>> THEN StatusAnswer(404) ELSE PageAnswer(data.calls)
      [] req.op = "record_tasks" ->
            PageAnswer(SelectSeq(data.tasks,
                LAMBDA t : t.id - EntityId(data.overlap, "tasks", 0)
                             = req.id - EntityId(data.overlap, req.slug, 0)))
      [] req.op = "record_comments" ->
            PageAnswer(SelectSeq(data.comments,
                LAMBDA c : c.id - EntityId(data.overlap, "comments", 0)
                             = req.id - EntityId(data.overlap, req.slug, 0)))
      [] req.op = "record_notes" ->
            PageAnswer(SelectSeq(data.notes["people"] \o data.notes["companies"]
                                    \o data.notes["deals"],
                                 LAMBDA n : n.parent_record_id = req.id))

\* the ways one call of the API fails
FaultKinds == {"exception", "status", "ratelimit", "undecodable", "notdict", "nodata", "nokey"}

DropFirstId(page) ==
    IF page = <<>> THEN page ELSE [page EXCEPT ![1] = [page[1] EXCEPT !.id = MissingId]]

\* the API's answers to the HTTP requests of one make_request call that fails
FaultAnswers(kind, healthy) ==
    CASE kind = "exception" -> <<RequestException>>
      [] kind = "status" -> <<StatusAnswer(500)>>
      [] kind = "ratelimit" -> <<RateLimited, healthy>>
      [] kind = "undecodable" -> <<Answer(FALSE, 200, Body("undecodable", <<>>))>>
      [] kind = "notdict" -> <<Answer(FALSE, 200, Body("notdict", <<>>))>>
      [] kind = "nodata" -> <<Answer(FALSE, 200, Body("nodata", <<>>))>>
      [] kind = "nokey" ->
            IF ~healthy.exc /\ healthy.status = 200 /\ healthy.body.kind = "data"
            THEN <<PageAnswer(DropFirstId(healthy.body.data))>>
            ELSE <<healthy>>
      [] kind = "short" ->
            IF ~healthy.exc /\ healthy.status = 200 /\ healthy.body.kind = "data"
                 /\ Len(healthy.body.data) > 1
            THEN <<PageAnswer(SubSeq(healthy.body.data, 1, 1))>>
            ELSE <<healthy>>

(***************************************************************************)
(* The state of a run of sync_attio.py as the functions see it:            *)
(*   tbl      the table attio_index                                        *)
(*   ulog     the upserts attempted                                        *)
(*   rlog     the make_request calls made, each with its request           *)
(*   cache    NAME_CACHE                                                   *)
(*   k        the number of make_request calls of the current stage        *)
(*   crashed  an exception is propagating out of the function              *)
(* env = [data, faults, cap, key]: the dataset, the calls of the stage     *)
(* that fail (call number -> kind), the longest batch the store accepts    *)
(* before its statement timeout, and whether ATTIO_API_KEY is set: the API *)
(* answers 401 to a request that carries no key.                           *)
(***************************************************************************)
Crash(st) == [st EXCEPT !.crashed = TRUE]

StoreEnv(env) == [script |-> <<>>, cap |-> env.cap]

\* the API's answers to the HTTP requests of the next call of a stage
AnswersTo(st, env, req) ==
    IF ~env.key THEN <<StatusAnswer(401)>>
    ELSE IF st.k + 1 \in DOMAIN env.faults
    THEN FaultAnswers(env.faults[st.k + 1], HealthyAnswer(env.data, req))
    ELSE <<HealthyAnswer(env.data, req)>>

\* the length of the page a response carries, -1 when it carries none
PageLength(res) ==
    IF Truthy(res) /\ res.status = 200 /\ res.body.kind = "data" THEN Len(res.body.data)
    ELSE -1

\* the log entry of a call: the request, the number of HTTP requests the
\* call sent and the length of the page it got
Logged(req, sent, res) ==
    [op |-> req.op, slug |-> req.slug, id |-> req.id, offset |-> req.offset,
     limit |-> req.limit, sort |-> req.sort, sent |-> sent, got |-> PageLength(res)]

\* a call of make_request from a stage
Call(st, env, req) ==
    LET returned(out) ==
            [res |-> out.res,
             st |-> [st EXCEPT !.k = @ + 1, !.rlog = Append(@, Logged(req, out.n, out.res))]]
    IN returned(make_request(AnswersTo(st, env, req), 1))

\* a call of safe_upsert from a stage
Upsert(st, env, batch) ==
    LET returned(u) == [st EXCEPT !.tbl = u.tbl, !.ulog = @ \o u.log]
    IN returned(safe_upsert(batch, StoreEnv(env), [tbl |-> st.tbl, log |-> <<>>, k |-> 0], 1))

\* a row of attio_index; parent_id 0 is the column left out, and title and
\* content are the pieces the code formats into one string
Row(id, parent_id, type, title, content, metadata) ==
    [id |-> id, parent_id |-> parent_id, type |-> type, title |-> title,
     content |-> content, metadata |-> metadata]

EmptyMetadata == [k \in {} |-> None]

\* src/sync_attio.py:269-274
TaskRow(t) ==
    Row(t.id, 0, "task", <<"Task:", t.content_plaintext>>,
        <<"Status:", IF t.is_completed THEN "True" ELSE "False">>, EmptyMetadata)

\* src/sync_attio.py:263-275
sync_tasks(env, st) ==
    LET tasks(c) ==
            IF ~Truthy(c.res) THEN c.st
            ELSE IF GetDataRaises(c.res) THEN Crash(c.st)
            ELSE IF \E i \in DOMAIN GetData(c.res) : ~HasId(GetData(c.res)[i]) THEN Crash(c.st)
            ELSE Upsert(c.st, env, [i \in DOMAIN GetData(c.res) |-> TaskRow(GetData(c.res)[i])])
    IN tasks(Call(st, env, Request("tasks", "", 0, 0, 0, FALSE)))

\* an offset that moves on by one entity instead of one page
NextOffsetByOne(offset, limit) == offset + 1

\* src/sync_attio.py:221, 260  offset += limit
NextOffset(offset, limit) == offset + limit

\* src/sync_attio.py:243-253  the content is str(vals)
StandardRow(slug, d) ==
    Row(d.id, 0, IF slug = "people" THEN "person" ELSE "company",
        <<IF "name" \in DOMAIN d.values /\ d.values["name"] # <<>>
          THEN d.values["name"][1]
          ELSE IF "company_name" \in DOMAIN d.values THEN d.values["company_name"][1]
          ELSE IF "email_addresses" \in DOMAIN d.values THEN d.values["email_addresses"][1]
          ELSE "Untitled">>,
        <<ToString(d.values)>>, EmptyMetadata)

\* src/sync_attio.py:241-254  the rows of the records of a page; the record
\* that raises inside the try is passed over: it has no id, or the elif
\* taken at lines 247-248 indexes an attribute without a value
RECURSIVE StandardRows(_, _)
StandardRows(slug, data) ==
    LET raises(vals) ==
            IF "name" \in DOMAIN vals /\ vals["name"] # <<>> THEN FALSE
            ELSE IF "company_name" \in DOMAIN vals THEN vals["company_name"] = <<>>
            ELSE "email_addresses" \in DOMAIN vals /\ vals["email_addresses"] = <<>>
    IN IF data = <<>> THEN <<>>
       ELSE IF HasId(Head(data)) /\ ~raises(Head(data).values)
            THEN <<StandardRow(slug, Head(data))>> \o StandardRows(slug, Tail(data))
            ELSE StandardRows(slug, Tail(data))

RECURSIVE standard_pages(_, _, _, _)
\* src/sync_attio.py:231-260  the while loop of one slug
standard_pages(env, st, slug, offset) ==
    LET next(data, saved) ==
            IF Len(data) < StandardLimit THEN saved
            ELSE standard_pages(env, saved, slug, NextOffset(offset, StandardLimit))
        page(c) ==
            IF ~Truthy(c.res) THEN c.st
            ELSE IF GetDataRaises(c.res) THEN Crash(c.st)
            ELSE IF GetData(c.res) = <<>> THEN c.st
            ELSE next(GetData(c.res), Upsert(c.st, env, StandardRows(slug, GetData(c.res))))
    IN page(Call(st, env, Request("records_query", slug, 0, offset, StandardLimit, FALSE)))

\* src/sync_attio.py:224-260
sync_standard(env, st) ==
    LET companies(people) ==
            IF people.crashed THEN people ELSE standard_pages(env, people, "companies", 0)
    IN companies(standard_pages(env, st, "people", 0))

\* src/sync_attio.py:83-103
get_parent_name(env, st, object_slug, record_id) ==
    LET cached(name, after) ==
            [name |-> name,
             st |-> [after EXCEPT !.cache = (<<object_slug, record_id>> :> name) @@ @]]
        filled(vals, key) == key \in DOMAIN vals /\ vals[key] # <<>>
        \* lines 93-97: the first of the four keys that holds a value
        keyed(vals) ==
            IF filled(vals, "name") THEN vals["name"][1]
            ELSE IF filled(vals, "full_name") THEN vals["full_name"][1]
            ELSE IF filled(vals, "title") THEN vals["title"][1]
            ELSE IF filled(vals, "company_name") THEN vals["company_name"][1]
            ELSE "Unknown"
        \* lines 98-99
        named(vals) ==
            IF keyed(vals) = "Unknown" /\ filled(vals, "email_addresses")
            THEN vals["email_addresses"][1]
            ELSE keyed(vals)
        \* line 92: res.json() raises on a body that is no JSON, .get on a JSON
        \* value that is no object ("data" holding a list included); an object
        \* without "data" has the values {}
        looked_up(c) ==
            IF ~Truthy(c.res) \/ c.res.status # 200 THEN [name |-> "Unknown", st |-> c.st]
            ELSE IF c.res.body.kind \in {"undecodable", "notdict", "data"}
            THEN [name |-> "Unknown", st |-> c.st]
            ELSE IF c.res.body.kind = "nodata" THEN cached("Unknown", c.st)
            ELSE cached(named(c.res.body.data.values), c.st)
    IN IF record_id = MissingId THEN [name |-> "Unknown", st |-> st]
       ELSE IF <<object_slug, record_id>> \in DOMAIN st.cache
       THEN [name |-> st.cache[<<object_slug, record_id>>], st |-> st]
       ELSE looked_up(Call(st, env, Request("record", object_slug, record_id, 0, 0, FALSE)))

\* src/sync_attio.py:205-217
NoteRow(n, pname) ==
    Row(n.id, n.parent_record_id, "note",
        IF n.title \in {None, "", "Untitled"} THEN <<"Note on", pname>>
        ELSE <<"Note:", n.title, pname>>,
        <<n.content_plaintext>>,
        [created_at |-> n.created_at, parent |-> pname])

RECURSIVE note_rows(_, _, _, _, _, _)
\* src/sync_attio.py:199-218  the for loop over the notes of a page
note_rows(env, st, slug, data, i, batch) ==
    LET named(g) ==
            note_rows(env, g.st, slug, data, i + 1, Append(batch, NoteRow(data[i], g.name)))
    IN IF i > Len(data) THEN [st |-> st, batch |-> batch]
       ELSE IF ~HasId(data[i]) THEN note_rows(env, st, slug, data, i + 1, batch)
       ELSE named(get_parent_name(env, st, slug, data[i].parent_record_id))

RECURSIVE notes_pages(_, _, _, _)
\* src/sync_attio.py:190-221  the while loop of one slug
notes_pages(env, st, slug, offset) ==
    LET next(data, saved) ==
            IF Len(data) < NotesLimit THEN saved
            ELSE notes_pages(env, saved, slug, NextOffset(offset, NotesLimit))
        save(data, b) == next(data, Upsert(b.st, env, b.batch))
        page(c) ==
            IF ~Truthy(c.res) \/ c.res.status # 200 THEN c.st
            ELSE IF GetDataRaises(c.res) THEN Crash(c.st)
            ELSE IF GetData(c.res) = <<>> THEN c.st
            ELSE save(GetData(c.res), note_rows(env, c.st, slug, GetData(c.res), 1, <<>>))
    IN page(Call(st, env, Request("notes", slug, 0, offset, NotesLimit, FALSE)))

\* src/sync_attio.py:186-221
sync_notes_cached(env, st) ==
    LET deals(companies) ==
            IF companies.crashed THEN companies ELSE notes_pages(env, companies, "deals", 0)
        companies(people) ==
            IF people.crashed THEN people ELSE deals(notes_pages(env, people, "companies", 0))
    IN companies(notes_pages(env, st, "people", 0))

\* src/sync_attio.py:168-172
TranscriptRow(rid, mid, title, txt) ==
    Row(rid, 0, "call_recording", <<"Transcript:", title>>, <<txt>>,
        [meeting_id |-> ToString(mid)])

RECURSIVE recordings_loop(_, _, _, _, _, _)
\* src/sync_attio.py:158-177  the for loop over the recordings of a meeting
recordings_loop(env, st, m, recordings, i, batch) ==
    LET falsy(x) == x \in {None, ""}
        \* line 164: the first of the three keys that holds a text
        txt(data) ==
            IF ~falsy(data.content_plaintext) THEN data.content_plaintext
            ELSE IF ~falsy(data.subtitles) THEN data.subtitles
            ELSE data.text
        \* lines 163-164 raise on a body that is no JSON and on a JSON value
        \* that is no object; an object of another shape holds none of the keys
        transcript(c) ==
            IF Truthy(c.res) /\ c.res.status = 200
            THEN IF c.res.body.kind \in {"undecodable", "notdict"}
                 THEN [st |-> Crash(c.st), batch |-> batch]
                 ELSE IF c.res.body.kind = "object" /\ ~falsy(txt(c.res.body.data))
                 THEN recordings_loop(env, c.st, m, recordings, i + 1,
                          Append(batch, TranscriptRow(recordings[i].id, m.id, m.title,
                                                      txt(c.res.body.data))))
                 ELSE recordings_loop(env, c.st, m, recordings, i + 1, batch)
            ELSE recordings_loop(env, c.st, m, recordings, i + 1, batch)
    IN IF i > Len(recordings) THEN [st |-> st, batch |-> batch]
       ELSE IF ~HasId(recordings[i]) THEN [st |-> Crash(st), batch |-> batch]
       ELSE transcript(Call(st, env, Request("transcript", "", recordings[i].id, 0, 0, FALSE)))

RECURSIVE meetings_loop(_, _, _, _, _)
\* src/sync_attio.py:148-177  the for loop over the meetings of a person
meetings_loop(env, st, meetings, i, batch) ==
    LET next(r) ==
            IF r.st.crashed THEN r ELSE meetings_loop(env, r.st, meetings, i + 1, r.batch)
        recordings(c) ==
            IF ~Truthy(c.res) THEN meetings_loop(env, c.st, meetings, i + 1, batch)
            ELSE IF GetDataRaises(c.res) THEN [st |-> Crash(c.st), batch |-> batch]
            ELSE next(recordings_loop(env, c.st, meetings[i], GetData(c.res), 1, batch))
    IN IF i > Len(meetings) THEN [st |-> st, batch |-> batch]
       ELSE IF ~HasId(meetings[i]) THEN [st |-> Crash(st), batch |-> batch]
       ELSE recordings(Call(st, env, Request("recordings", "", meetings[i].id, 0, 0, FALSE)))

RECURSIVE people_loop(_, _, _, _, _)
\* src/sync_attio.py:139-177  the for loop over the people of a page
people_loop(env, st, people, i, batch) ==
    LET next(r) ==
            IF r.st.crashed THEN r ELSE people_loop(env, r.st, people, i + 1, r.batch)
        meetings(c) ==
            IF ~Truthy(c.res) THEN people_loop(env, c.st, people, i + 1, batch)
            ELSE IF GetDataRaises(c.res) THEN [st |-> Crash(c.st), batch |-> batch]
            ELSE next(meetings_loop(env, c.st, GetData(c.res), 1, batch))
    IN IF i > Len(people) THEN [st |-> st, batch |-> batch]
       ELSE IF ~HasId(people[i]) THEN [st |-> Crash(st), batch |-> batch]
       ELSE meetings(Call(st, env, Request("meetings", "", people[i].id, 0, 0, FALSE)))

RECURSIVE transcripts_pages_uncapped(_, _, _, _, _)
\* the while loop without the test of total_people_scanned
transcripts_pages_uncapped(env, st, sort, offset, total_people_scanned) ==
    LET next(still_sort, people, r) ==
            IF r.st.crashed THEN r.st
            ELSE transcripts_pages_uncapped(env, Upsert(r.st, env, r.batch), still_sort,
                                   offset + Len(people), total_people_scanned + Len(people))
        page(still_sort, c) ==
            IF ~Truthy(c.res) THEN c.st
            ELSE IF GetDataRaises(c.res) THEN Crash(c.st)
            ELSE IF GetData(c.res) = <<>> THEN c.st
            ELSE next(still_sort, GetData(c.res),
                      people_loop(env, c.st, GetData(c.res), 1, <<>>))
        fallback(first) ==
            IF Truthy(first.res) THEN page(sort, first)
            ELSE IF ~sort THEN Crash(first.st)
            ELSE page(FALSE, Call(first.st, env,
                         Request("people_query", "people", 0, offset, PeopleLimit, FALSE)))
    IN fallback(Call(st, env, Request("people_query", "people", 0, offset, PeopleLimit, sort)))

RECURSIVE transcripts_pages(_, _, _, _, _)
\* src/sync_attio.py:122-181  the while loop; sort tells whether payload
\* still holds the key "sort"
transcripts_pages(env, st, sort, offset, total_people_scanned) ==
    LET next(still_sort, people, r) ==
            IF r.st.crashed THEN r.st
            ELSE transcripts_pages(env, Upsert(r.st, env, r.batch), still_sort,
                                   offset + Len(people), total_people_scanned + Len(people))
        page(still_sort, c) ==
            IF ~Truthy(c.res) THEN c.st
            ELSE IF GetDataRaises(c.res) THEN Crash(c.st)
            ELSE IF GetData(c.res) = <<>> THEN c.st
            ELSE next(still_sort, GetData(c.res),
                      people_loop(env, c.st, GetData(c.res), 1, <<>>))
        fallback(first) ==
            IF Truthy(first.res) THEN page(sort, first)
            ELSE IF ~sort THEN Crash(first.st)
            ELSE page(FALSE, Call(first.st, env,
                         Request("people_query", "people", 0, offset, PeopleLimit, FALSE)))
    IN IF total_people_scanned >= MaxPeopleScan THEN st
       ELSE fallback(Call(st, env,
                Request("people_query", "people", 0, offset, PeopleLimit, sort)))

\* src/sync_attio.py:106-183
sync_transcripts_smart(env, st) == transcripts_pages(env, st, TRUE, 0, 0)

(***************************************************************************)
(* ai_studio_code.py: the older ingestion script.                          *)
(***************************************************************************)
RecordsLimit == 500

\* a call of attio_get from a stage
Get(st, env, req) ==
    LET returned(ans) ==
            [data |-> attio_get(ans).value,
             st |-> [st EXCEPT !.k = @ + 1,
                               !.rlog = Append(@, Logged(req, 1, Response(ans)))]]
    IN returned(AnswersTo(st, env, req)[1])

\* src/ai_studio_code.py:27-31
upsert_item(env, st, data) ==
    LET executed(out) ==
            [st EXCEPT !.tbl = IF out = OK THEN UpsertRow(@, data) ELSE @,
                       !.ulog = Append(@, [batch |-> <<data>>, outcome |-> out, depth |-> 1])]
    IN executed(StoreExecute(StoreEnv(env), <<data>>, 1))

RECURSIVE UpsertEach(_, _, _)
UpsertEach(env, st, rows) ==
    IF rows = <<>> THEN st
    ELSE UpsertEach(env, upsert_item(env, st, Head(rows)), Tail(rows))

\* the number of leading entities that have an id
RECURSIVE GoodPrefix(_)
GoodPrefix(entities) ==
    IF entities = <<>> \/ ~HasId(Head(entities)) THEN 0
    ELSE 1 + GoodPrefix(Tail(entities))

\* a for loop that upserts one row per entity: the rows of the entities
\* before the first one without an id are saved, and that one raises
LeafLoop(env, st, entities, rows) ==
    IF GoodPrefix(entities) < Len(entities)
    THEN Crash(UpsertEach(env, st, rows))
    ELSE UpsertEach(env, st, rows)

\* src/ai_studio_code.py:38-45
ListRow(l) ==
    Row(l.id, 0, "list", <<"List:", l.name>>, <<"Workspace list. Slug:", l.api_slug>>,
        EmptyMetadata)

\* src/ai_studio_code.py:49-57
EntryRow(l, entry) ==
    Row(entry.id, l.id, "list_entry", <<"Entry in", l.name>>,
        <<"Entry ID", ToString(entry.id)>>, EmptyMetadata)

RECURSIVE lists_loop(_, _, _, _)
\* src/ai_studio_code.py:37-57  the for loop over the lists
lists_loop(env, st, lists, i) ==
    LET next(done) == IF done.crashed THEN done ELSE lists_loop(env, done, lists, i + 1)
        entries(g) ==
            next(LeafLoop(env, g.st, g.data,
                    [j \in 1..GoodPrefix(g.data) |-> EntryRow(lists[i], g.data[j])]))
    IN IF i > Len(lists) THEN st
       ELSE IF ~HasId(lists[i]) THEN Crash(st)
       ELSE entries(Get(upsert_item(env, st, ListRow(lists[i])), env,
                        Request("entries", "", lists[i].id, 0, 0, FALSE)))

\* src/ai_studio_code.py:34-57
sync_lists(env, st) ==
    LET lists(g) == lists_loop(env, g.st, g.data, 1)
    IN lists(Get(st, env, Request("lists", "", 0, 0, 0, FALSE)))

\* src/ai_studio_code.py:85-88
RecordName(rec) ==
    IF "name" \in DOMAIN rec.values THEN rec.values["name"][1]
    ELSE IF "email_addresses" \in DOMAIN rec.values THEN rec.values["email_addresses"][1]
    ELSE IF "title" \in DOMAIN rec.values THEN rec.values["title"][1]
    ELSE "Untitled"

\* src/ai_studio_code.py:69-76
ObjectRow(obj) ==
    Row(obj.id, 0, "object_config", <<"Object:", obj.singular_noun>>, <<obj.description>>,
        [slug |-> obj.api_slug])

\* src/ai_studio_code.py:90-97
RecordRow(slug, rec) ==
    Row(rec.id, 0, slug, <<RecordName(rec)>>, <<ToString(rec.values)>>, rec.values)

\* src/ai_studio_code.py:102-110
RecordTaskRow(rec, t) ==
    Row(t.id, rec.id, "task", <<"Task:", t.content_plaintext>>,
        <<"Completed:", IF t.is_completed THEN "True" ELSE "False">>,
        [deadline |-> t.deadline_at])

\* src/ai_studio_code.py:115-123
CommentRow(rec, c) ==
    Row(c.id, rec.id, "comment", <<"Comment on", RecordName(rec)>>, <<c.content_plaintext>>,
        [author |-> c.author])

\* src/ai_studio_code.py:128-136
RecordNoteRow(rec, n) ==
    Row(n.id, rec.id, "note", <<n.title>>, <<n.content_plaintext>>, EmptyMetadata)

\* src/ai_studio_code.py:99-136  the tasks, comments and notes of a record
record_children(env, st, slug, rec) ==
    LET notes(n) ==
            LeafLoop(env, n.st, n.data,
                [j \in 1..GoodPrefix(n.data) |-> RecordNoteRow(rec, n.data[j])])
        after_comments(done) ==
            IF done.crashed THEN done
            ELSE notes(Get(done, env, Request("record_notes", slug, rec.id, 0, 0, FALSE)))
        comments(c) ==
            after_comments(LeafLoop(env, c.st, c.data,
                [j \in 1..GoodPrefix(c.data) |-> CommentRow(rec, c.data[j])]))
        after_tasks(done) ==
            IF done.crashed THEN done
            ELSE comments(Get(done, env, Request("record_comments", slug, rec.id, 0, 0, FALSE)))
        tasks(t) ==
            after_tasks(LeafLoop(env, t.st, t.data,
                [j \in 1..GoodPrefix(t.data) |-> RecordTaskRow(rec, t.data[j])]))
    IN tasks(Get(st, env, Request("record_tasks", slug, rec.id, 0, 0, FALSE)))

RECURSIVE records_loop(_, _, _, _, _)
\* src/ai_studio_code.py:80-136  the for loop over the records of an object
records_loop(env, st, slug, records, i) ==
    LET next(done) ==
            IF done.crashed THEN done ELSE records_loop(env, done, slug, records, i + 1)
        \* lines 86-88: the branch taken indexes an attribute without a value
        raises(vals) ==
            IF "name" \in DOMAIN vals THEN vals["name"] = <<>>
            ELSE IF "email_addresses" \in DOMAIN vals THEN vals["email_addresses"] = <<>>
            ELSE "title" \in DOMAIN vals /\ vals["title"] = <<>>
    IN IF i > Len(records) THEN st
       ELSE IF ~HasId(records[i]) \/ raises(records[i].values) THEN Crash(st)
       ELSE next(record_children(env, upsert_item(env, st, RecordRow(slug, records[i])),
                                 slug, records[i]))

RECURSIVE objects_loop(_, _, _, _)
\* src/ai_studio_code.py:64-136  the for loop over the objects
objects_loop(env, st, objects, i) ==
    LET next(done) == IF done.crashed THEN done ELSE objects_loop(env, done, objects, i + 1)
        records(g) == next(records_loop(env, g.st, objects[i].api_slug, g.data, 1))
    IN IF i > Len(objects) THEN st
       ELSE IF ~HasId(objects[i]) THEN Crash(st)
       ELSE records(Get(upsert_item(env, st, ObjectRow(objects[i])), env,
                        Request("records", objects[i].api_slug, 0, 0, RecordsLimit, FALSE)))

\* src/ai_studio_code.py:60-136
sync_objects_full(env, st) ==
    LET objects(g) == objects_loop(env, g.st, g.data, 1)
    IN objects(Get(st, env, Request("objects", "", 0, 0, 0, FALSE)))

\* src/ai_studio_code.py:146-161
CallRow(call) ==
    Row(call.id, 0, "call_recording",
        <<IF "title" \in DOMAIN call.values THEN call.values["title"][1] ELSE "Call">>,
        <<IF "transcript" \in DOMAIN call.values THEN call.values["transcript"][1] ELSE "">>,
        call.values)

\* src/ai_studio_code.py:139-161
sync_call_recordings(env, st) ==
    LET \* lines 149, 152, 155 raise: an attribute without a value, no id
        raises(call) ==
            \/ "transcript" \in DOMAIN call.values /\ call.values["transcript"] = <<>>
            \/ "title" \in DOMAIN call.values /\ call.values["title"] = <<>>
            \/ ~HasId(call)
        \* the number of leading calls that are saved
        good(data) ==
            CHOOSE k \in 0..Len(data) :
                /\ \A j \in 1..k : ~raises(data[j])
                /\ k = Len(data) \/ raises(data[k + 1])
        saved(g, k) == UpsertEach(env, g.st, [j \in 1..k |-> CallRow(g.data[j])])
        calls(g) ==
            IF good(g.data) < Len(g.data) THEN Crash(saved(g, good(g.data)))
            ELSE saved(g, good(g.data))
    IN calls(Get(st, env, Request("records", "calls", 0, 0, 0, FALSE)))

(***************************************************************************)
(* get_context_snippet (src/app.py).  A string is a sequence of            *)
(* characters.  The two pieces of highlight markup are one element each,   *)
(* SpanOpen and SpanClose, with the lengths of the strings they stand for. *)
(***************************************************************************)
\* The characters of the model are those of Latin-1 (U+0000 to U+00FF).  The
\* patterns of src/app.py are str patterns compiled without re.ASCII, so \s,
\* \w and re.IGNORECASE follow the Unicode database: the letters that have
\* another case, lower case first and upper case second, position by position
LowerLetters == <<"a", "b", "c", "d", "e", "f", "g", "h", "i", "j", "k", "l", "m", "n",
                  "o", "p", "q", "r", "s", "t", "u", "v", "w", "x", "y", "z", "à", "á",
                  "â", "ã", "ä", "å", "æ", "ç", "è", "é", "ê", "ë", "ì", "í", "î", "ï",
                  "ð", "ñ", "ò", "ó", "ô", "õ", "ö", "ø", "ù", "ú", "û", "ü", "ý", "þ">>
UpperLetters == <<"A", "B", "C", "D", "E", "F", "G", "H", "I", "J", "K", "L", "M", "N",
                  "O", "P", "Q", "R", "S", "T", "U", "V", "W", "X", "Y", "Z", "À", "Á",
                  "Â", "Ã", "Ä", "Å", "Æ", "Ç", "È", "É", "Ê", "Ë", "Ì", "Í", "Î", "Ï",
                  "Ð", "Ñ", "Ò", "Ó", "Ô", "Õ", "Ö", "Ø", "Ù", "Ú", "Û", "Ü", "Ý", "Þ">>

\* \s, and the separators of str.split() and str.strip(): space, \t, \n, \r,
\* \f, and in this order U+000B, U+001C, U+001D, U+001E, U+001F, U+0085, U+00A0
IsSpace(c) ==
    c \in {" ", "\t", "\n", "\r", "\f", "", "", "", "", "", "", " "}

\* \w: str.isalnum() or the underscore
IsWordChar(c) ==
    c \in SeqToSet(LowerLetters) \cup SeqToSet(UpperLetters)
            \cup {"0", "1", "2", "3", "4", "5", "6", "7", "8", "9", "_"}
            \cup {"ª", "²", "³", "µ", "¹", "º", "¼", "½", "¾", "ß", "ÿ"}

\* re.IGNORECASE compares characters by their lower case
LowerChar(c) ==
    IF \E i \in DOMAIN UpperLetters : UpperLetters[i] = c
    THEN LowerLetters[CHOOSE i \in DOMAIN UpperLetters : UpperLetters[i] = c]
    ELSE c

RECURSIVE SplitFrom(_, _, _)
SplitFrom(s, i, cur) ==
    IF i > Len(s) THEN (IF cur = <<>> THEN <<>> ELSE <<cur>>)
    ELSE IF IsSpace(s[i])
         THEN (IF cur = <<>> THEN <<>> ELSE <<cur>>) \o SplitFrom(s, i + 1, <<>>)
         ELSE SplitFrom(s, i + 1, Append(cur, s[i]))

\* str.split(): the maximal runs of non-whitespace
Split(s) == SplitFrom(s, 1, <<>>)

RECURSIVE JoinSpace(_)
\* " ".join(words)
JoinSpace(words) ==
    IF words = <<>> THEN <<>>
    ELSE IF Len(words) = 1 THEN words[1]
    ELSE words[1] \o <<" ">> \o JoinSpace(Tail(words))

\* src/app.py:52
CollapseWhitespace(text) == JoinSpace(Split(text))

KeepWordOrSpace(c) == IsWordChar(c) \/ IsSpace(c)

\* src/app.py:54-55  re.sub(r'[^\w\s]', '', query).strip().split()
QueryWords(query) == Split(SelectSeq(query, KeepWordOrSpace))

MatchesAt(needle, text, i) ==
    /\ i + Len(needle) - 1 <= Len(text)
    /\ \A k \in 1..Len(needle) : LowerChar(text[i + k - 1]) = LowerChar(needle[k])

NoMatch == [found |-> FALSE, word |-> <<>>, start |-> 0, end |-> 0]

\* re.search(re.escape(needle), text, re.IGNORECASE): the leftmost occurrence,
\* as match.start() and match.end()
Search(needle, text) ==
    IF \E i \in 1..Len(text) : MatchesAt(needle, text, i)
    THEN LET i == CHOOSE i \in 1..Len(text) :
                     /\ MatchesAt(needle, text, i)
                     /\ \A j \in 1..(i - 1) : ~MatchesAt(needle, text, j)
         IN [found |-> TRUE, word |-> needle, start |-> i - 1, end |-> i - 1 + Len(needle)]
    ELSE NoMatch

RECURSIVE FindLiteral(_, _, _)
\* src/app.py:61-66
FindLiteral(words, text, k) ==
    IF k > Len(words) THEN NoMatch
    ELSE IF Len(words[k]) > 1 /\ Search(words[k], text).found
         THEN Search(words[k], text)
         ELSE FindLiteral(words, text, k + 1)

\* src/app.py:69
Suffixes ==
    << <<"a", "t", "i", "o", "n">>, <<"t", "i", "o", "n", "a", "l">>, <<"t", "i", "o", "n">>,
       <<"s", "i", "o", "n">>, <<"m", "e", "n", "t">>, <<"i", "n", "g">>,
       <<"e", "d">>, <<"e", "s">>, <<"s">>, <<"a", "l">> >>

\* str.endswith: case-sensitive
EndsWith(word, suffix) ==
    /\ Len(suffix) <= Len(word)
    /\ SubSeq(word, Len(word) - Len(suffix) + 1, Len(word)) = suffix

RECURSIVE StripSuffix(_, _)
\* src/app.py:72-76: strip the first suffix of the list the word ends with
StripSuffix(word, j) ==
    IF j > Len(Suffixes) THEN word
    ELSE IF EndsWith(word, Suffixes[j])
         THEN SubSeq(word, 1, Len(word) - Len(Suffixes[j]))
         ELSE StripSuffix(word, j + 1)

RECURSIVE FindStem(_, _, _)
\* src/app.py:70-81
FindStem(words, text, k) ==
    IF k > Len(words) THEN NoMatch
    ELSE IF /\ Len(words[k]) > 4
            /\ Len(StripSuffix(words[k], 1)) >= 3
            /\ Search(StripSuffix(words[k], 1), text).found
         THEN Search(StripSuffix(words[k], 1), text)
         ELSE FindStem(words, text, k + 1)

SpanOpen == "<span style=...>"
SpanClose == "</span>"
SpanOpenLen == 149
SpanCloseLen == 7
Ellipsis == <<".", ".", ".">>

\* the number of word characters of s from position i on
RECURSIVE WordRun(_, _)
WordRun(s, i) ==
    IF i <= Len(s) /\ IsWordChar(s[i]) THEN 1 + WordRun(s, i + 1) ELSE 0

\* The length of the match of (t1|t2|...|tn\w*) at position i, 0 when there is
\* none: the first alternative that matches wins, and \w* belongs to the last
\* alternative alone.
RECURSIVE AltMatchLen(_, _, _, _)
AltMatchLen(terms, s, i, k) ==
    IF k > Len(terms) THEN 0
    ELSE IF MatchesAt(terms[k], s, i)
         THEN IF k = Len(terms)
              THEN Len(terms[k]) + WordRun(s, i + Len(terms[k]))
              ELSE Len(terms[k])
         ELSE AltMatchLen(terms, s, i, k + 1)

RECURSIVE Highlight(_, _, _)
\* src/app.py:100-105  re.sub(f"({pattern}\w*)", '<span ...>\1</span>', snippet, IGNORECASE)
Highlight(terms, s, i) ==
    IF i > Len(s) THEN <<>>
    ELSE LET n == AltMatchLen(terms, s, i, 1)
         IN IF n > 0
            THEN <<SpanOpen>> \o SubSeq(s, i, i + n - 1) \o <<SpanClose>>
                    \o Highlight(terms, s, i + n)
            ELSE <<s[i]>> \o Highlight(terms, s, i + 1)

LongerThanOne(w) == Len(w) > 1

\* src/app.py:93-95
HighlightTerms(words, matched_word) ==
    SelectSeq(words, LongerThanOne)
        \o (IF matched_word # <<>> /\ matched_word \notin SeqToSet(words)
            THEN <<matched_word>> ELSE <<>>)

\* end_cut, one character too far
EndCutOffByOne(text_len, end_idx, window) == Min(text_len, end_idx + window + 1)

\* src/app.py:86
StartCut(start_idx, window) == Max(0, start_idx - window)
\* src/app.py:87
EndCut(text_len, end_idx, window) == Min(text_len, end_idx + window)

\* src/app.py:89-91
CutSnippet(text, m, window) ==
    (IF StartCut(m.start, window) > 0 THEN Ellipsis ELSE <<>>)
      \o SubSeq(text, StartCut(m.start, window) + 1, EndCut(Len(text), m.end, window))
      \o (IF EndCut(Len(text), m.end, window) < Len(text) THEN Ellipsis ELSE <<>>)

\* text[:n]
Prefix(text, n) == SubSeq(text, 1, Min(n, Len(text)))

\* the result of the call with the locals that led to it: stage says which
\* branch produced the match, raw is `snippet` before the highlighting
SnippetResult(stage, m, raw, out) ==
    [stage |-> stage, matched_word |-> m.word, start_idx |-> m.start,
     end_idx |-> m.end, raw |-> raw, out |-> out]

\* the stemmed search tried before the literal one
get_context_snippet_stem_first(text0, query, window) ==
    IF text0 = <<>> THEN SnippetResult("empty", NoMatch, <<>>, <<>>)
    ELSE
      LET text == CollapseWhitespace(text0)
          words == QueryWords(query)
          stem == FindStem(words, text, 1)
          lit == FindLiteral(words, text, 1)
          m == IF stem.found THEN stem ELSE lit
          raw == CutSnippet(text, m, window)
      IN IF m.found
         THEN SnippetResult(IF stem.found THEN "stem" ELSE "literal", m, raw,
                            Highlight(HighlightTerms(words, m.word), raw, 1))
         ELSE SnippetResult("prefix", NoMatch, <<>>, Prefix(text, window * 2) \o Ellipsis)

\* src/app.py:50-108
get_context_snippet(text0, query, window) ==
    IF text0 = <<>> THEN SnippetResult("empty", NoMatch, <<>>, <<>>)
    ELSE
      LET text == CollapseWhitespace(text0)
          words == QueryWords(query)
          lit == FindLiteral(words, text, 1)
          stem == FindStem(words, text, 1)
          m == IF lit.found THEN lit ELSE stem
          raw == CutSnippet(text, m, window)
      IN IF m.found
         THEN SnippetResult(IF lit.found THEN "literal" ELSE "stem", m, raw,
                            Highlight(HighlightTerms(words, m.word), raw, 1))
         ELSE SnippetResult("prefix", NoMatch, <<>>, Prefix(text, window * 2) \o Ellipsis)

(***************************************************************************)
(* Specification SpecUpsert: safe_upsert called on its own, on every       *)
(* batch of up to MaxBatch rows, under every pattern of store outcomes.    *)
(***************************************************************************)
\* the rows of the harness: every other row has a null metadata value
HarnessMetadata(i) ==
    IF i % 2 = 1 THEN [created_at |-> None, parent |-> "Ada"]
    ELSE [created_at |-> "2024", parent |-> "Ada"]

HarnessRow(i) ==
    [id |-> i, type |-> "note", title |-> "new", content |-> "text",
     metadata |-> HarnessMetadata(i)]

HarnessBatches == { [i \in 1..n |-> HarnessRow(i)] : n \in 0..MaxBatch }

\* a table that already holds an older version of row 1, or nothing
HarnessTables ==
    { <<>>,
      << [id |-> 1, type |-> "note", title |-> "old", content |-> "text",
          metadata |-> [parent |-> "Ada"]] >> }

\* the most attempts safe_upsert can make on n rows
MaxAttempts(n) == IF n = 0 THEN 0 ELSE 2 * n - 1

UpsertIdle == u_pc = "idle" /\ u_items = <<>>

UpsertStart ==
    /\ attio_index \in HarnessTables
    /\ upsert_log = <<>>
    /\ u_pc = "ready"
    /\ u_items \in HarnessBatches

CallSafeUpsert ==
    /\ u_pc = "ready"
    /\ \E script \in [1..MaxAttempts(Len(u_items)) -> StoreOutcomes] :
         LET st == safe_upsert(u_items, [script |-> script, cap |-> 0],
                               [tbl |-> attio_index, log |-> <<>>, k |-> 0], 1)
         IN /\ attio_index' = st.tbl
            /\ upsert_log' = st.log
    /\ u_pc' = "returned"
    /\ UNCHANGED <<u_items, rvars, nvars, qvars, svars>>

(***************************************************************************)
(* Specification SpecBisect: safe_upsert called on its own on batches of   *)
(* up to MaxBisect rows, under every sequence of outcome classes of the    *)
(* store: success, a timeout-class error, another error.                   *)
(***************************************************************************)
BisectOutcomes == {OK, ErrStatementTimeout, ErrDuplicateRow}
BisectBatches == { [i \in 1..n |-> HarnessRow(i)] : n \in 0..MaxBisect }

BisectStart ==
    /\ attio_index \in HarnessTables
    /\ upsert_log = <<>>
    /\ u_pc = "ready"
    /\ u_items \in BisectBatches

CallSafeUpsertClasses ==
    /\ u_pc = "ready"
    /\ \E script \in [1..MaxAttempts(Len(u_items)) -> BisectOutcomes] :
         LET returned(st) == attio_index' = st.tbl /\ upsert_log' = st.log
         IN returned(safe_upsert(u_items, [script |-> script, cap |-> 0],
                                 [tbl |-> attio_index, log |-> <<>>, k |-> 0], 1))
    /\ u_pc' = "returned"
    /\ UNCHANGED <<u_items, rvars, nvars, qvars, svars>>

(***************************************************************************)
(* Specification SpecRequest: make_request and attio_get called on their   *)
(* own, under every answer of the API.                                     *)
(***************************************************************************)
SampleEntity == [id |-> 1]

HttpAnswers ==
    { RequestException, RateLimited, StatusAnswer(404), StatusAnswer(500),
      StatusAnswer(204),
      PageAnswer(<<>>), PageAnswer(<<SampleEntity>>),
      Answer(FALSE, 200, Body("undecodable", <<>>)),
      Answer(FALSE, 200, Body("notdict", <<>>)),
      Answer(FALSE, 200, Body("nodata", <<>>)) }

\* the answers make_request tells apart: it reads only the status
RetryAnswers ==
    { RequestException, RateLimited, StatusAnswer(500), PageAnswer(<<SampleEntity>>) }

RequestIdle ==
    /\ r_pc = "idle" /\ r_fn = "none" /\ r_answers = <<>>
    /\ r_out = Outcome(FALSE, NoResponse, 0)

StoreIdle == attio_index = <<>> /\ upsert_log = <<>>

RequestStart ==
    /\ r_pc = "ready"
    /\ \/ r_fn = "make_request" /\ r_answers \in [1..RecursionLimit -> RetryAnswers]
       \/ r_fn = "attio_get" /\ r_answers \in [1..1 -> HttpAnswers]
    /\ r_out = Outcome(FALSE, NoResponse, 0)

CallMakeRequest ==
    /\ r_pc = "ready" /\ r_fn = "make_request"
    /\ r_out' = make_request(r_answers, 1)
    /\ r_pc' = "returned"
    /\ UNCHANGED <<r_fn, r_answers, attio_index, upsert_log, uvars, nvars, qvars, svars>>

CallAttioGet ==
    /\ r_pc = "ready" /\ r_fn = "attio_get"
    /\ r_out' = attio_get(r_answers[1])
    /\ r_pc' = "returned"
    /\ UNCHANGED <<r_fn, r_answers, attio_index, upsert_log, uvars, nvars, qvars, svars>>

(***************************************************************************)
(* Specification SpecSnippet: get_context_snippet called on every content, *)
(* query and window of these sets.                                         *)
(***************************************************************************)
SnippetTexts == {
    <<"t", "h", "e", " ", "t", "a", "s", "k", " ", "i", "s", " ", "c", "o", "m", "p", "l", "e", "t", "e", " ", "n", "o", "w">>,
    <<"R", "u", "n", "n", "i", "n", "g", " ", " ", "l", "a", "t", "e", "\n", " ", "f", "o", "r", " ", "t", "h", "e", "\t", "M", "e", "e", "t", "i", "n", "g">>,
    <<>>,
    <<" ", " ", " ">>,
    <<"C", "a", "f", "é", " ", "C", "R", "È", "M", "E", " ", "d", "é", "j", "à">>,
    <<"b", "a", "n", "a", "n", "a", " ", "s", "p", "l", "i", "t", " ", "s", "e", "c", "r", "e", "t">>,
    <<"a", "_", "b", " ", "t", "a", "s", "k", "s", ";", " ", "T", "A", "S", "K", "I", "N", "G", " ", "t", "a", "s", "k">> }

SnippetQueries == {
    <<"c", "o", "m", "p", "l", "e", "t", "i", "n", "g">>,
    <<"a", " ", "m", "e", "e", "t", "i", "n", "g", "!">>,
    <<"z", "e", "b", "r", "a", " ", "n", "a", "t", "i", "o", "n", "a", "l">>,
    <<>>,
    <<"r", "u", "n", "n", "i", "n", "g", " ", "t", "a", "s", "k", "s">>,
    <<"\"", "l", "a", "t", "e", " ", "-", "d", "r", "a", "f", "t">>,
    <<"c", "o", "m", "p", "l", "e", "t", "e", "d", " ", "n", "o", "w">>,
    <<"c", "r", "e", "a", "t", "i", "o", "n">>,
    <<"¡", "c", "r", "è", "m", "e", "!", " ", "c", "a", "f", "é">>,
    <<"t", "a", "s", "k", " ", "t", "a", "s", "k", "i", "n", "g">>,
    <<"x", " ", "i", "s">> }

DefaultWindow == 200
SnippetWindows == 1..MaxWindow \cup {DefaultWindow}

SnippetIdle ==
    /\ n_pc = "idle" /\ n_text = <<>> /\ n_query = <<>> /\ n_window = 0
    /\ n_out = SnippetResult("empty", NoMatch, <<>>, <<>>)

SnippetStart ==
    /\ n_pc = "ready"
    /\ n_text \in SnippetTexts
    /\ n_query \in SnippetQueries
    /\ n_window \in SnippetWindows
    /\ n_out = SnippetResult("empty", NoMatch, <<>>, <<>>)

CallGetContextSnippet ==
    /\ n_pc = "ready"
    /\ n_out' = get_context_snippet(n_text, n_query, n_window)
    /\ n_pc' = "returned"
    /\ UNCHANGED <<n_text, n_query, n_window, attio_index, upsert_log, uvars, rvars, qvars,
                   svars>>

(***************************************************************************)
(* The search page (src/app.py:110-239).  Streamlit runs the script from   *)
(* the top on every interaction; st.session_state outlives the runs.  The  *)
(* store answers a query by raising or with the rows of the asked range    *)
(* and the exact count of the matches.                                     *)
(***************************************************************************)
\* src/app.py:132
PAGE_SIZE == 50

\* src/app.py:124
available_types ==
    {"person", "company", "note", "task", "call_recording", "comment", "list", "email"}

\* rows of .range(start, end) when `count` rows match
RangeRows(count, start, end) == Max(0, Min(end, count - 1) - start + 1)

QueryEntry(mode, query, types, start, end, raised) ==
    [mode |-> mode, query |-> query, types |-> types,
     start |-> start, end |-> end, raised |-> raised]

SearchResult(log, raised, count, rows) ==
    [log |-> log, raised |-> raised, count |-> count, rows |-> rows]

\* the search without the plain-mode fallback
text_search_websearch_only(query, types, start, end, matches, ws_raises, plain_raises) ==
    SearchResult(<<QueryEntry("websearch", query, types, start, end, ws_raises)>>,
                 ws_raises,
                 IF ws_raises THEN 0 ELSE matches,
                 IF ws_raises THEN 0 ELSE RangeRows(matches, start, end))

\* src/app.py:147-166: the websearch query, and the plain one if it raised
text_search(query, types, start, end, matches, ws_raises, plain_raises) ==
    LET ws == QueryEntry("websearch", query, types, start, end, ws_raises)
        plain == QueryEntry("plain", query, types, start, end, plain_raises)
    IN IF ~ws_raises
       THEN SearchResult(<<ws>>, FALSE, matches, RangeRows(matches, start, end))
       ELSE IF ~plain_raises
            THEN SearchResult(<<ws, plain>>, FALSE, matches, RangeRows(matches, start, end))
            ELSE SearchResult(<<ws, plain>>, TRUE, 0, 0)

\* src/app.py:128-130
PageAfterReset(query, page, last_query) == IF query # last_query THEN 0 ELSE page

\* src/app.py:169-175: what the run renders
ViewOf(res) ==
    IF res.raised THEN "error"
    ELSE IF res.count = 0 THEN "no_results"
    ELSE "results"

\* src/app.py:226-238: the buttons rendered under a result list
ButtonsOf(res, page, end) ==
    IF ViewOf(res) = "results" /\ res.count > PAGE_SIZE
    THEN (IF page > 0 THEN {"prev"} ELSE {}) \cup (IF end < res.count THEN {"next"} ELSE {})
    ELSE {}

\* One run of the script.  click is the button whose press started the run
\* ("none": an edit of the widgets, or st.rerun()).
\* src/app.py:110-239
ScriptRun(query, types, click, ws_raises, plain_raises) ==
    LET page == PageAfterReset(query, ss_page, ss_last_query)
        start == page * PAGE_SIZE
        end == start + PAGE_SIZE - 1
        searched == query # <<>> /\ types # {}
        res == IF searched
               THEN text_search(query, types, start, end, q_matches, ws_raises, plain_raises)
               ELSE SearchResult(<<>>, FALSE, 0, 0)
        buttons == IF searched THEN ButtonsOf(res, page, end) ELSE {}
        pressed == click \in buttons
        \* st.rerun() after a press of Previous (src/app.py:231-233) ends the
        \* run before the Next button of lines 235-238 is rendered
        rendered == IF pressed /\ click = "prev" THEN {"prev"} ELSE buttons
    IN /\ q_query' = query
       /\ q_types' = types
       /\ ss_last_query' = query
       /\ ss_page' = IF pressed /\ click = "prev" THEN page - 1
                     ELSE IF pressed /\ click = "next" THEN page + 1
                     ELSE page
       /\ q_rerun' = pressed
       /\ q_view' = IF query = <<>> THEN "blank"
                    ELSE IF types = {} THEN "select_filter"
                    ELSE ViewOf(res)
       /\ q_count' = res.count
       /\ q_start' = start
       /\ q_log' = res.log
       /\ q_buttons' = rendered
       /\ UNCHANGED <<q_matches, attio_index, upsert_log, uvars, rvars, nvars, svars>>

SearchQueries == { <<>>, <<"a", "d", "a">>, <<"\"", "a", "d", "a">> }
SearchTypeChoices == { available_types, {"note"}, {} }

\* the user edits the search field or the filter
EditWidgets ==
    /\ ~q_rerun
    /\ \E query \in SearchQueries, types \in SearchTypeChoices, ws \in BOOLEAN, pl \in BOOLEAN :
          /\ <<query, types>> # <<q_query, q_types>>
          /\ ScriptRun(query, types, "none", ws, pl)

\* the user presses one of the rendered buttons
PressButton ==
    /\ ~q_rerun
    /\ \E click \in q_buttons, ws \in BOOLEAN, pl \in BOOLEAN :
          ScriptRun(q_query, q_types, click, ws, pl)

\* the run st.rerun() asked for
Rerun ==
    /\ q_rerun
    /\ \E ws \in BOOLEAN, pl \in BOOLEAN : ScriptRun(q_query, q_types, "none", ws, pl)

MatchCounts == {0, 1, PAGE_SIZE, PAGE_SIZE + 1, 2 * PAGE_SIZE, 2 * PAGE_SIZE + 1}

SearchIdle ==
    /\ ss_page = 0 /\ ss_last_query = <<>> /\ q_query = <<>> /\ q_types = available_types
    /\ q_matches = 0 /\ q_view = "blank" /\ q_count = 0 /\ q_start = 0
    /\ q_log = <<>> /\ q_buttons = {} /\ q_rerun = FALSE

\* the page after its first run: empty search field, every type selected
SearchStart ==
    /\ ss_page = 0 /\ ss_last_query = <<>> /\ q_query = <<>> /\ q_types = available_types
    /\ q_matches \in MatchCounts /\ q_view = "blank" /\ q_count = 0 /\ q_start = 0
    /\ q_log = <<>> /\ q_buttons = {} /\ q_rerun = FALSE

(***************************************************************************)
(* Specifications SpecSync and SpecLegacy: one run of sync_attio.py, and   *)
(* of ai_studio_code.py, from the configuration check to the exit of the   *)
(* process, against every dataset, under every subset of the secrets and   *)
(* with up to MaxFaults failing API calls.  Specification SpecIdem:        *)
(* two runs of sync_attio.py in a row against the same dataset; a call of  *)
(* the API may fail in one of the runs, and the store may have another     *)
(* statement timeout in the second run than in the first.                  *)
(***************************************************************************)
Running == -1

SecretNames == {"ATTIO_API_KEY", "SUPABASE_URL", "SUPABASE_KEY"}
AllSecrets == [name \in SecretNames |-> TRUE]

NoFaults == <<>>
EmptyCache == <<>>

\* the sets of failing calls: at most budget of the calls 1..n, each with a kind
RECURSIVE FaultMaps(_, _)
FaultMaps(n, budget) ==
    IF n = 0 \/ budget = 0 THEN {NoFaults}
    ELSE FaultMaps(n - 1, budget)
         \cup {(n :> kind) @@ f : f \in FaultMaps(n - 1, budget - 1), kind \in FaultKinds}

\* every size with an API that sorts, and the largest with one that does not
Datasets ==
    {Dataset(n, FALSE, TRUE) : n \in 0..MaxEntities} \cup {Dataset(MaxEntities, FALSE, FALSE)}
IdemDatasets ==
    {Dataset(n, overlap, sorts) : n \in 0..MaxEntities, overlap \in BOOLEAN, sorts \in BOOLEAN}
StoreCaps == {1, MaxEntities}
IdemStoreCaps == {0, 1, MaxEntities}
\* over the two runs in a row at most one call of the API fails
IdemFaults == Min(MaxFaults, 1)

\* a row an earlier run left in the table
StaleRow(id) == Row(id, 0, "person", <<"Old">>, <<"values">>, [stale |-> "yes"])
StaleTables == {<<>>, <<StaleRow(EntityId(FALSE, "people", 1)), StaleRow(1)>>}

SyncIdle ==
    /\ s_script = "none" /\ s_secrets = AllSecrets /\ s_pc = "idle" /\ s_exit = Running
    /\ s_source = Dataset(0, FALSE, TRUE) /\ s_cap = 0 /\ s_faults = 0
    /\ request_log = <<>> /\ NAME_CACHE = EmptyCache /\ s_run = 0 /\ s_first = <<>>
    /\ s_first_cap = 0

RunStart ==
    /\ s_secrets \in [SecretNames -> BOOLEAN]
    /\ s_pc = "config" /\ s_exit = Running
    /\ s_source \in Datasets /\ s_cap \in StoreCaps /\ s_faults = MaxFaults
    /\ attio_index = <<>> /\ upsert_log = <<>>
    /\ request_log = <<>> /\ NAME_CACHE = EmptyCache /\ s_run = 1 /\ s_first = <<>>
    /\ s_first_cap = s_cap

SyncStart == s_script = "sync_attio" /\ RunStart
LegacyStart == s_script = "ai_studio_code" /\ RunStart

IdemStart ==
    /\ s_script = "sync_attio"
    /\ s_secrets = AllSecrets
    /\ s_pc = "config" /\ s_exit = Running
    /\ s_source \in IdemDatasets /\ s_cap \in IdemStoreCaps /\ s_faults = IdemFaults
    /\ attio_index \in StaleTables /\ upsert_log = <<>>
    /\ request_log = <<>> /\ NAME_CACHE = EmptyCache /\ s_run = 1 /\ s_first = <<>>
    /\ s_first_cap = s_cap

\* the run as a stage finds it, and the environment that answers the stage
StateNow ==
    [tbl |-> attio_index, ulog |-> upsert_log, rlog |-> request_log,
     cache |-> NAME_CACHE, k |-> 0, crashed |-> FALSE]
EnvNow(faults) ==
    [data |-> s_source, faults |-> faults, cap |-> s_cap, key |-> s_secrets["ATTIO_API_KEY"]]

\* create_client(SUPABASE_URL, SUPABASE_KEY) raises when either is missing
CreateClientRaises == ~s_secrets["SUPABASE_URL"] \/ ~s_secrets["SUPABASE_KEY"]

Exit(code) ==
    /\ s_pc' = "exited"
    /\ s_exit' = code

\* src/sync_attio.py:15-17
CheckSecrets ==
    /\ s_script = "sync_attio" /\ s_pc = "config"
    /\ IF ~s_secrets["ATTIO_API_KEY"] \/ ~s_secrets["SUPABASE_URL"]
       THEN Exit(1)
       ELSE s_pc' = "connect" /\ s_exit' = s_exit
    /\ UNCHANGED <<s_script, s_secrets, s_source, s_cap, s_faults, request_log, NAME_CACHE,
                   s_run, s_first, s_first_cap, attio_index, upsert_log, uvars, rvars, nvars, qvars>>

\* src/sync_attio.py:19-24
ConnectStore ==
    /\ s_script = "sync_attio" /\ s_pc = "connect"
    /\ IF CreateClientRaises
       THEN Exit(1)
       ELSE s_pc' = "transcripts" /\ s_exit' = s_exit
    /\ UNCHANGED <<s_script, s_secrets, s_source, s_cap, s_faults, request_log, NAME_CACHE,
                   s_run, s_first, s_first_cap, attio_index, upsert_log, uvars, rvars, nvars, qvars>>

\* src/ai_studio_code.py:11  outside any try: the exception ends the process
ConnectStoreUnguarded ==
    /\ s_script = "ai_studio_code" /\ s_pc = "config"
    /\ IF CreateClientRaises
       THEN Exit(1)
       ELSE s_pc' = "lists" /\ s_exit' = s_exit
    /\ UNCHANGED <<s_script, s_secrets, s_source, s_cap, s_faults, request_log, NAME_CACHE,
                   s_run, s_first, s_first_cap, attio_index, upsert_log, uvars, rvars, nvars, qvars>>

\* the sets of calls of a stage that may fail, when the stage makes healthy
\* calls with none failing
StageFaults(healthy) == FaultMaps(healthy.k + s_faults, s_faults)

\* A stage of a driver has run to its end under one choice of the API calls
\* that fail: an exception that leaves the stage ends the process with exit
\* code 1 (src/sync_attio.py:284-287, and the interpreter's handling of an
\* uncaught exception in ai_studio_code.py); after the last stage the
\* process ends with exit code 0.
Finish(faults, st, next) ==
    /\ \A k \in DOMAIN faults : k <= st.k
    /\ attio_index' = st.tbl
    /\ upsert_log' = st.ulog
    /\ request_log' = st.rlog
    /\ NAME_CACHE' = st.cache
    /\ s_faults' = s_faults - Cardinality(DOMAIN faults)
    /\ IF st.crashed THEN Exit(1)
       ELSE IF next = "exited" THEN Exit(0)
       ELSE s_pc' = next /\ s_exit' = s_exit
    /\ UNCHANGED <<s_script, s_secrets, s_source, s_cap, s_run, s_first, s_first_cap,
                   uvars, rvars, nvars, qvars>>

\* src/sync_attio.py:279
SyncTranscripts ==
    /\ s_script = "sync_attio" /\ s_pc = "transcripts"
    /\ \E faults \in StageFaults(sync_transcripts_smart(EnvNow(NoFaults), StateNow)) :
          Finish(faults, sync_transcripts_smart(EnvNow(faults), StateNow), "notes")

(***************************************************************************)
(* Specification SpecScan: sync_transcripts_smart on its own against       *)
(* sources that hold more people than MAX_PEOPLE_SCAN, the API answering   *)
(* up to ScanFaults calls with a failure or with a page of one row although *)
(* more rows follow.                                                       *)
(***************************************************************************)
ScanFaultKinds == {"short", "status"}
MaxScanPeople == MaxPeopleScan + PeopleLimit + 1
ScanDatasets == {Dataset(n, FALSE, sorts) : n \in 0..MaxScanPeople, sorts \in BOOLEAN}

RECURSIVE ScanFaultMaps(_)
\* the sets of up to budget calls of the scan that fail or fall short: a
\* call can be chosen when the scan, under the choices made for the calls
\* before it, gets as far as making it
ScanFaultMaps(budget) ==
    IF budget = 0 THEN {NoFaults}
    ELSE LET later(f) ==
                 {k \in 1..sync_transcripts_smart(EnvNow(f), StateNow).k :
                     \A j \in DOMAIN f : j < k}
             extend(prev) ==
                 prev \cup UNION {{(k :> kind) @@ f : k \in later(f), kind \in ScanFaultKinds} :
                                  f \in prev}
         IN extend(ScanFaultMaps(budget - 1))

ScanStart ==
    /\ s_script = "sync_attio" /\ s_secrets = AllSecrets
    /\ s_pc = "transcripts" /\ s_exit = Running
    /\ s_source \in ScanDatasets /\ s_cap = MaxScanPeople /\ s_faults = ScanFaults
    /\ attio_index = <<>> /\ upsert_log = <<>>
    /\ request_log = <<>> /\ NAME_CACHE = EmptyCache /\ s_run = 1 /\ s_first = <<>>
    /\ s_first_cap = s_cap

\* src/sync_attio.py:279
ScanTranscripts ==
    /\ s_script = "sync_attio" /\ s_pc = "transcripts"
    /\ \E faults \in ScanFaultMaps(s_faults) :
          Finish(faults, sync_transcripts_smart(EnvNow(faults), StateNow), "notes")

\* src/sync_attio.py:280
SyncNotes ==
    /\ s_script = "sync_attio" /\ s_pc = "notes"
    /\ \E faults \in StageFaults(sync_notes_cached(EnvNow(NoFaults), StateNow)) :
          Finish(faults, sync_notes_cached(EnvNow(faults), StateNow), "standard")

\* src/sync_attio.py:281
SyncStandard ==
    /\ s_script = "sync_attio" /\ s_pc = "standard"
    /\ \E faults \in StageFaults(sync_standard(EnvNow(NoFaults), StateNow)) :
          Finish(faults, sync_standard(EnvNow(faults), StateNow), "tasks")

\* src/sync_attio.py:282-283
SyncTasks ==
    /\ s_script = "sync_attio" /\ s_pc = "tasks"
    /\ \E faults \in StageFaults(sync_tasks(EnvNow(NoFaults), StateNow)) :
          Finish(faults, sync_tasks(EnvNow(faults), StateNow), "exited")

\* src/ai_studio_code.py:164
SyncLists ==
    /\ s_script = "ai_studio_code" /\ s_pc = "lists"
    /\ \E faults \in StageFaults(sync_lists(EnvNow(NoFaults), StateNow)) :
          Finish(faults, sync_lists(EnvNow(faults), StateNow), "objects")

\* src/ai_studio_code.py:165
SyncObjectsFull ==
    /\ s_script = "ai_studio_code" /\ s_pc = "objects"
    /\ \E faults \in StageFaults(sync_objects_full(EnvNow(NoFaults), StateNow)) :
          Finish(faults, sync_objects_full(EnvNow(faults), StateNow), "calls")

\* src/ai_studio_code.py:166-167
SyncCallRecordings ==
    /\ s_script = "ai_studio_code" /\ s_pc = "calls"
    /\ \E faults \in StageFaults(sync_call_recordings(EnvNow(NoFaults), StateNow)) :
          Finish(faults, sync_call_recordings(EnvNow(faults), StateNow), "exited")

\* the script is started again after a run that ended normally: a new
\* process, so NAME_CACHE is empty again; the store may have another statement
\* timeout than during the first run
RunAgain ==
    /\ s_pc = "exited" /\ s_exit = 0 /\ s_run = 1
    /\ s_run' = 2
    /\ s_first' = attio_index
    /\ s_cap' \in IdemStoreCaps
    /\ s_pc' = "config" /\ s_exit' = Running
    /\ NAME_CACHE' = EmptyCache
    /\ request_log' = <<>>
    /\ upsert_log' = <<>>
    /\ UNCHANGED <<s_script, s_secrets, s_source, s_first_cap, s_faults, attio_index,
                   uvars, rvars, nvars, qvars>>

(***************************************************************************)
(* The specifications.                                                     *)
(***************************************************************************)
InitUpsert == UpsertStart /\ RequestIdle /\ SnippetIdle /\ SearchIdle /\ SyncIdle
NextUpsert == CallSafeUpsert
SpecUpsert == InitUpsert /\ [][NextUpsert]_vars

InitBisect == BisectStart /\ RequestIdle /\ SnippetIdle /\ SearchIdle /\ SyncIdle
NextBisect == CallSafeUpsertClasses
SpecBisect == InitBisect /\ [][NextBisect]_vars

InitRequest == RequestStart /\ StoreIdle /\ UpsertIdle /\ SnippetIdle /\ SearchIdle /\ SyncIdle
NextRequest == CallMakeRequest \/ CallAttioGet
SpecRequest == InitRequest /\ [][NextRequest]_vars

InitSnippet == SnippetStart /\ StoreIdle /\ UpsertIdle /\ RequestIdle /\ SearchIdle /\ SyncIdle
NextSnippet == CallGetContextSnippet
SpecSnippet == InitSnippet /\ [][NextSnippet]_vars

InitSearch == SearchStart /\ StoreIdle /\ UpsertIdle /\ RequestIdle /\ SnippetIdle /\ SyncIdle
NextSearch == EditWidgets \/ PressButton \/ Rerun
SpecSearch == InitSearch /\ [][NextSearch]_vars

InitSync == SyncStart /\ UpsertIdle /\ RequestIdle /\ SnippetIdle /\ SearchIdle
NextSync ==
    \/ CheckSecrets \/ ConnectStore
    \/ SyncTranscripts \/ SyncNotes \/ SyncStandard \/ SyncTasks
SpecSync == InitSync /\ [][NextSync]_vars

InitLegacy == LegacyStart /\ UpsertIdle /\ RequestIdle /\ SnippetIdle /\ SearchIdle
NextLegacy == ConnectStoreUnguarded \/ SyncLists \/ SyncObjectsFull \/ SyncCallRecordings
SpecLegacy == InitLegacy /\ [][NextLegacy]_vars

InitScan == ScanStart /\ UpsertIdle /\ RequestIdle /\ SnippetIdle /\ SearchIdle
NextScan == ScanTranscripts
SpecScan == InitScan /\ [][NextScan]_vars

InitIdem == IdemStart /\ UpsertIdle /\ RequestIdle /\ SnippetIdle /\ SearchIdle
NextIdem ==
    \/ CheckSecrets \/ ConnectStore
    \/ SyncTranscripts \/ SyncNotes \/ SyncStandard \/ SyncTasks
    \/ RunAgain
SpecIdem == InitIdem /\ [][NextIdem]_vars

(***************************************************************************)
(* Claims about safe_upsert (SpecUpsert).                                  *)
(***************************************************************************)
\* the claim's timeout class: the message contains "57014", "timeout" or "502"
ClaimTimeoutClass(msg) ==
    \E w \in msg : w = "57014" \/ w = "502" \/ Lower(w) \in {"timeout", "readtimeout"}

\* the last attempt whose batch holds the row with this id, 0 when there is none
LastAttemptOf(log, id) ==
    IF \E j \in DOMAIN log : id \in Ids(log[j].batch)
    THEN CHOOSE j \in DOMAIN log :
            /\ id \in Ids(log[j].batch)
            /\ \A j2 \in DOMAIN log : id \in Ids(log[j2].batch) => j2 <= j
    ELSE 0

Persisted(tbl, row) == \E i \in DOMAIN tbl : tbl[i] = row

ItemSettled(item) ==
    LET j == LastAttemptOf(upsert_log, item.id)
    IN /\ j # 0
       /\ \/ upsert_log[j].outcome = OK /\ Persisted(attio_index, CleanItem(item))
          \/ /\ upsert_log[j].outcome # OK
             /\ ClaimTimeoutClass(upsert_log[j].outcome)
             /\ Len(upsert_log[j].batch) = 1
          \/ /\ upsert_log[j].outcome # OK
             /\ ~ClaimTimeoutClass(upsert_log[j].outcome)

SplitFollows(j) ==
    LET b == upsert_log[j].batch
        n == Len(b)
    IN (upsert_log[j].outcome # OK /\ ClaimTimeoutClass(upsert_log[j].outcome) /\ n > 1) =>
          /\ j + 1 \in DOMAIN upsert_log
          /\ upsert_log[j + 1].batch = SubSeq(b, 1, n \div 2)
          /\ \E j2 \in DOMAIN upsert_log :
                /\ j2 > j + 1
                /\ upsert_log[j2].batch = SubSeq(b, (n \div 2) + 1, n)

FailedSingleNotRetried(j) ==
    (upsert_log[j].outcome # OK /\ Len(upsert_log[j].batch) = 1) =>
        \A j2 \in DOMAIN upsert_log :
            j2 > j => upsert_log[j].batch[1].id \notin Ids(upsert_log[j2].batch)

\* C1: when safe_upsert returns, every row of the batch is persisted, or was
\* last attempted alone and failed with a timeout-class error, or was last
\* attempted in a batch that failed with another error; a timeout-class
\* failure of n > 1 rows is followed by attempts of items[:n//2] and
\* items[n//2:] in that order; a failed single row is never attempted again.
C1_SafeUpsertPost ==
    u_pc = "returned" =>
        /\ \A i \in DOMAIN u_items : ItemSettled(u_items[i])
        /\ \A j \in DOMAIN upsert_log : SplitFollows(j) /\ FailedSingleNotRetried(j)

\* three rows, the batch timed out and was split twice; row 1 was dropped
\* after a timeout on its own and row 3 was persisted
C1_Witness ==
    /\ u_pc = "returned"
    /\ Len(u_items) = 3
    /\ Len(upsert_log) = 5
    /\ upsert_log[1].outcome = ErrBadGateway
    /\ upsert_log[2].outcome = ErrReadTimeout /\ Len(upsert_log[2].batch) = 1
    /\ upsert_log[3].outcome = ErrStatementTimeout /\ Len(upsert_log[3].batch) = 2
    /\ upsert_log[4].outcome = ErrDuplicateRow
    /\ upsert_log[5].outcome = OK
    /\ Persisted(attio_index, CleanItem(u_items[3]))
    /\ ~Persisted(attio_index, CleanItem(u_items[1]))

(***************************************************************************)
(* Claims about make_request and attio_get (SpecRequest).                  *)
(***************************************************************************)
\* C4: a call of make_request sends the request and retries it at most once
\* when the API answers 429 (a single retry), so it sends at most two HTTP
\* requests even if the API answers 429 to every request.
C4_BoundedRetry ==
    (r_pc = "returned" /\ r_fn = "make_request") => r_out.n <= 2

\* the outcomes of the HTTP call the claim names: a request exception, a
\* status other than 200, a body that cannot be decoded
FailedFetch(ans) ==
    ans.exc \/ ans.status # 200 \/ ans.body.kind = "undecodable"

\* the responses among the first n answers
ResponsesOf(answers, n) == {Response(answers[i]) : i \in 1..Min(n, Len(answers))}

\* C5: attio_get never raises and returns an empty sequence when the HTTP
\* call fails; make_request never raises and returns None or a response.
C5_FailSoft ==
    r_pc = "returned" =>
        /\ ~r_out.raised
        /\ r_fn = "attio_get" =>
              (FailedFetch(r_answers[1]) => r_out.value = <<>>)
        /\ r_fn = "make_request" =>
              (r_out.res = NoResponse \/ r_out.res \in ResponsesOf(r_answers, r_out.n))

\* attio_get has returned [] for a 200 whose body is no JSON
C5_Witness ==
    /\ r_pc = "returned" /\ r_fn = "attio_get"
    /\ ~r_answers[1].exc /\ r_answers[1].status = 200
    /\ r_answers[1].body.kind = "undecodable"
    /\ r_out = Returned(<<>>)

(***************************************************************************)
(* Claims about get_context_snippet (SpecSnippet).                         *)
(***************************************************************************)
\* the claim's suffix list, in its order
ClaimSuffixes ==
    << <<"a", "t", "i", "o", "n">>, <<"t", "i", "o", "n", "a", "l">>, <<"t", "i", "o", "n">>,
       <<"s", "i", "o", "n">>, <<"m", "e", "n", "t">>, <<"i", "n", "g">>,
       <<"e", "d">>, <<"e", "s">>, <<"s">>, <<"a", "l">> >>

\* the word without the first suffix of the list it ends with
ClaimRoot(w) ==
    IF \E j \in DOMAIN ClaimSuffixes : EndsWith(w, ClaimSuffixes[j])
    THEN LET j == CHOOSE j \in DOMAIN ClaimSuffixes :
                     /\ EndsWith(w, ClaimSuffixes[j])
                     /\ \A i \in 1..(j - 1) : ~EndsWith(w, ClaimSuffixes[i])
         IN SubSeq(w, 1, Len(w) - Len(ClaimSuffixes[j]))
    ELSE w

Occurs(needle, text) == \E i \in 1..Len(text) : MatchesAt(needle, text, i)
FirstOccurrence(needle, text) ==
    CHOOSE i \in 1..Len(text) :
        MatchesAt(needle, text, i) /\ \A j \in 1..(i - 1) : ~MatchesAt(needle, text, j)

LiteralHit(words, text, k) == Len(words[k]) > 1 /\ Occurs(words[k], text)
StemHit(words, text, k) ==
    /\ Len(words[k]) > 4
    /\ Len(ClaimRoot(words[k])) >= 3
    /\ Occurs(ClaimRoot(words[k]), text)

HasMarkup(out) == \E i \in DOMAIN out : out[i] \in {SpanOpen, SpanClose}

SnippetOrdering(text, words, window, res) ==
    /\ (\E k \in DOMAIN words : LiteralHit(words, text, k)) =>
          LET k == CHOOSE k \in DOMAIN words :
                     /\ LiteralHit(words, text, k)
                     /\ \A i \in 1..(k - 1) : ~LiteralHit(words, text, i)
          IN /\ res.stage = "literal"
             /\ res.matched_word = words[k]
             /\ res.start_idx = FirstOccurrence(words[k], text) - 1
    /\ ( /\ \A k \in DOMAIN words : ~LiteralHit(words, text, k)
         /\ \E k \in DOMAIN words : StemHit(words, text, k) ) =>
          LET k == CHOOSE k \in DOMAIN words :
                     /\ StemHit(words, text, k)
                     /\ \A i \in 1..(k - 1) : ~StemHit(words, text, i)
          IN /\ res.stage = "stem"
             /\ res.matched_word = ClaimRoot(words[k])
             /\ res.start_idx = FirstOccurrence(ClaimRoot(words[k]), text) - 1
    /\ (\A k \in DOMAIN words : ~LiteralHit(words, text, k) /\ ~StemHit(words, text, k)) =>
          /\ res.stage = "prefix"
          /\ res.out = Prefix(text, 2 * window) \o Ellipsis
          /\ ~HasMarkup(res.out)

\* C8: the snippet is cut around the first query word longer than one
\* character that occurs literally in the collapsed text; only if no word
\* occurs literally, around the root of the first word longer than four
\* characters whose root (first suffix of the list stripped, at least three
\* characters) occurs; only if neither, it is the first 2*window characters
\* and "..." without markup.
C8_FallbackOrdering ==
    (n_pc = "returned" /\ n_text # <<>>) =>
        SnippetOrdering(CollapseWhitespace(n_text), QueryWords(n_query), n_window, n_out)

\* the first query word occurs only as a stem, the second literally: the
\* literal match of the second word was used
C8_Witness ==
    /\ n_pc = "returned" /\ n_text # <<>>
    /\ Len(QueryWords(n_query)) = 2
    /\ ~LiteralHit(QueryWords(n_query), CollapseWhitespace(n_text), 1)
    /\ StemHit(QueryWords(n_query), CollapseWhitespace(n_text), 1)
    /\ LiteralHit(QueryWords(n_query), CollapseWhitespace(n_text), 2)
    /\ n_out.stage = "literal"
    /\ n_out.matched_word = QueryWords(n_query)[2]

\* len() of the returned string
RECURSIVE OutLen(_)
OutLen(out) ==
    IF out = <<>> THEN 0
    ELSE (IF Head(out) = SpanOpen THEN SpanOpenLen
          ELSE IF Head(out) = SpanClose THEN SpanCloseLen
          ELSE 1) + OutLen(Tail(out))

IsText(c) == c \notin {SpanOpen, SpanClose}
IsSpanOpen(c) == c = SpanOpen
Unmarked(out) == SelectSeq(out, IsText)
SpanCount(out) == Len(SelectSeq(out, IsSpanOpen))

\* C9 as stated: the returned string is never longer than
\* 2*window + 2*len("...").
C9_LengthBound ==
    n_pc = "returned" => OutLen(n_out.out) <= 2 * n_window + 2 * Len(Ellipsis)

\* C9 as amended: without its highlight markup the returned string is no
\* longer than 2*window + len(matched term) + 2*len("...") when a term
\* matched, every highlighted occurrence adds the markup's length, and the
\* returned string is no longer than 2*window + len("...") when none did.
C9_LengthBoundAmended ==
    n_pc = "returned" =>
        /\ n_out.stage = "empty" => n_out.out = <<>>
        /\ n_out.stage = "prefix" => OutLen(n_out.out) <= 2 * n_window + Len(Ellipsis)
        /\ n_out.stage \in {"literal", "stem"} =>
              /\ Len(Unmarked(n_out.out))
                    <= 2 * n_window + Len(n_out.matched_word) + 2 * Len(Ellipsis)
              /\ OutLen(n_out.out) = Len(Unmarked(n_out.out))
                    + SpanCount(n_out.out) * (SpanOpenLen + SpanCloseLen)

\* a match far from both ends of the text: the amended bound is met exactly
C9_Witness ==
    /\ n_pc = "returned"
    /\ n_out.stage = "literal"
    /\ SpanCount(n_out.out) >= 1
    /\ Len(Unmarked(n_out.out))
          = 2 * n_window + Len(n_out.matched_word) + 2 * Len(Ellipsis)

(***************************************************************************)
(* Claims about the search page (SpecSearch).                              *)
(***************************************************************************)
SearchRan == q_query # <<>> /\ q_types # {}
WebsearchRaised == SearchRan /\ Len(q_log) >= 1 /\ q_log[1].raised
PlainQueries == {i \in DOMAIN q_log : q_log[i].mode = "plain"}

\* the fallback itself: one websearch query first; a plain query only after
\* the websearch query raised, and then exactly one, with the same query,
\* types and range
FallbackIssued ==
    SearchRan =>
        /\ Len(q_log) >= 1 /\ q_log[1].mode = "websearch"
        /\ q_log[1].query = q_query /\ q_log[1].types = q_types
        /\ q_log[1].start = q_start /\ q_log[1].end = q_start + PAGE_SIZE - 1
        /\ (PlainQueries # {}) => q_log[1].raised
        /\ q_log[1].raised =>
              /\ PlainQueries = {2} /\ Len(q_log) = 2
              /\ q_log[2] = [q_log[1] EXCEPT !.mode = "plain", !.raised = q_log[2].raised]

\* C7 as stated: whenever the websearch query raises, the plain query is
\* issued exactly once with the same query, types and range, and the run ends
\* with results or "no results", never with the error surfaced.
C7_FallbackNeverErrors ==
    /\ FallbackIssued
    /\ WebsearchRaised => q_view \in {"results", "no_results"}

\* C7 as amended: the fallback is issued as stated; the run ends with results
\* or "no results" when the plain query succeeds, and with the error
\* surfaced ("Search failed") when the plain query raises too.
C7_FallbackAmended ==
    /\ FallbackIssued
    /\ WebsearchRaised =>
          /\ ~q_log[2].raised => q_view \in {"results", "no_results"}
          /\ q_log[2].raised => q_view = "error"
    /\ (SearchRan /\ q_view = "error") => WebsearchRaised

\* the websearch query for an unbalanced quote raised, the plain query
\* succeeded and the run rendered results
C7_Witness ==
    /\ q_query = <<"\"", "a", "d", "a">>
    /\ WebsearchRaised
    /\ ~q_log[2].raised
    /\ q_view = "results"
    /\ q_count = q_matches

(***************************************************************************)
(* Claims about the ingestion run.                                         *)
(***************************************************************************)
IdsOf(tbl) == {tbl[i].id : i \in DOMAIN tbl}
RowsOf(tbl, id) == {tbl[i] : i \in {j \in DOMAIN tbl : tbl[j].id = id}}

\* the same set of ids, the same row count, the same field values per id
SameIndex(a, b) ==
    /\ IdsOf(a) = IdsOf(b)
    /\ Len(a) = Len(b)
    /\ \A id \in IdsOf(a) : RowsOf(a, id) = RowsOf(b, id)

SecondRunDone == s_run = 2 /\ s_pc = "exited"

    /\ \E i \in DOMAIN upsert_log :
          upsert_log[i].outcome = OK /\ Ids(upsert_log[i].batch) \subseteq IdsOf(s_first)

\* C3: with every secret set, sync_attio.py ends with the normal exit, after
\* all four stages, whatever the API answered to its calls.
C3_NoAbort == (s_secrets = AllSecrets /\ s_pc = "exited") => s_exit = 0

PageOps == {"notes", "records_query"}
PageCalls(op, slug) == SelectSeq(request_log, LAMBDA e : e.op = op /\ e.slug = slug)
ClaimLimit(op) == IF op = "notes" THEN NotesLimit ELSE StandardLimit
Held(op, slug) ==
    IF op = "notes" THEN Len(s_source.notes[slug]) ELSE Len(s_source.records[slug])

\* the page calls of one paging loop: the j-th asks for offset (j-1)*limit,
\* every page that was followed by another was a full one, and the loop made
\* no more calls than the entities held need
PagingOf(op, slug) ==
    LET calls == PageCalls(op, slug)
    IN /\ \A j \in DOMAIN calls :
            /\ calls[j].offset = (j - 1) * ClaimLimit(op)
            /\ calls[j].limit = ClaimLimit(op)
            /\ j < Len(calls) => calls[j].got = ClaimLimit(op)
       /\ Len(calls) <= (Held(op, slug) \div ClaimLimit(op)) + 1

\* C6: in sync_notes_cached and sync_standard the pages of a slug are asked
\* for at offsets 0, limit, 2*limit, ..., each once, no page is asked for
\* after a short, empty or failed one, and the loop ends within
\* held/limit + 1 page calls.
C6_ShortPageTermination == \A op \in PageOps : \A slug \in Slugs : PagingOf(op, slug)

\* a run has ended in which a loop stopped at a short page that was not
\* empty, and a loop went through three pages
C6_Witness ==
    /\ s_pc = "exited"
    /\ \E op \in PageOps : \E slug \in Slugs :
          /\ Len(PageCalls(op, slug)) >= 2
          /\ PageCalls(op, slug)[Len(PageCalls(op, slug))].got \in 1..(ClaimLimit(op) - 1)
    /\ \E op \in PageOps : \E slug \in Slugs : Len(PageCalls(op, slug)) >= 3

\* C10: a run that lacks one of the three secrets issues no API request and
\* no upsert, and ends with a non-zero exit code.
C10_MissingSecretFatal ==
    s_secrets # AllSecrets =>
        /\ request_log = <<>>
        /\ upsert_log = <<>>
        /\ s_pc = "exited" => s_exit # 0

(***************************************************************************)
(* C11: null-valued metadata keys                                          *)
(***************************************************************************)
HasNullMetadata(row) == \E k \in DOMAIN row.metadata : row.metadata[k] = None
NullFree(rows) == \A i \in DOMAIN rows : ~HasNullMetadata(rows[i])

\* C11: no row of the index table, and no batch handed to the store's upsert,
\* holds a metadata key whose value is null.
C11_NullsStripped ==
    /\ NullFree(attio_index)
    /\ \A j \in DOMAIN upsert_log : NullFree(upsert_log[j].batch)

(***************************************************************************)
(* C12: termination and cost of safe_upsert (SpecBisect)                   *)
(***************************************************************************)
RECURSIVE CeilLog2(_)
CeilLog2(n) == IF n <= 1 THEN 0 ELSE 1 + CeilLog2((n + 1) \div 2)

\* the attempt of the call that made the call of attempt j: the last earlier
\* attempt one level up, 0 when there is none
CallerOf(j) ==
    IF \E i \in 1..(j - 1) : upsert_log[i].depth = upsert_log[j].depth - 1
    THEN CHOOSE i \in 1..(j - 1) :
            /\ upsert_log[i].depth = upsert_log[j].depth - 1
            /\ \A i2 \in 1..(j - 1) : upsert_log[i2].depth = upsert_log[j].depth - 1 => i2 <= i
    ELSE 0

SmallerNonEmpty(j) ==
    upsert_log[j].depth > 1 =>
        /\ CallerOf(j) # 0
        /\ Len(upsert_log[j].batch) >= 1
        /\ Len(upsert_log[j].batch) < Len(upsert_log[CallerOf(j)].batch)

BisectCost ==
    (u_pc = "returned" /\ Len(u_items) >= 1) =>
        /\ Len(upsert_log) >= 1
        /\ Len(upsert_log) <= 2 * Len(u_items) - 1
        /\ upsert_log[1].depth = 1
        /\ \A j \in DOMAIN upsert_log :
              /\ upsert_log[j].depth <= CeilLog2(Len(u_items)) + 1
              /\ SmallerNonEmpty(j)

\* before the call: under every sequence of outcomes of the store the call
\* returns, having made no more than 2n-1 attempts
BisectReturns ==
    u_pc = "ready" =>
        \A script \in [1..MaxAttempts(Len(u_items)) -> BisectOutcomes] :
            safe_upsert(u_items, [script |-> script, cap |-> 0],
                        [tbl |-> attio_index, log |-> <<>>, k |-> 0], 1).k
                <= MaxAttempts(Len(u_items))

\* C12: every call of safe_upsert returns, whatever the store answers; on
\* n >= 1 rows it has then made at most 2n-1 upsert attempts, every recursive
\* call was made on a non-empty batch shorter than its caller's, and no call
\* was nested deeper than ceil(log2(n)) + 1.
C12_BisectTerminates == BisectReturns /\ BisectCost

\* MaxBisect rows under a store that timed out on every call: 2n-1 attempts,
\* the deepest at ceil(log2(n)) + 1
C12_Witness ==
    /\ u_pc = "returned"
    /\ Len(u_items) = MaxBisect
    /\ Len(upsert_log) = 2 * MaxBisect - 1
    /\ \A j \in DOMAIN upsert_log : upsert_log[j].outcome = ErrStatementTimeout
    /\ \E j \in DOMAIN upsert_log : upsert_log[j].depth = CeilLog2(MaxBisect) + 1

(***************************************************************************)
(* C13: the page index of the search page (SpecSearch)                     *)
(***************************************************************************)
\* C13: after every run of the script the page index is not negative, and a
\* run whose search reported count > 0 asked for a range that starts below
\* count.
C13_PageInRange ==
    /\ ss_page >= 0
    /\ q_count > 0 => q_start < q_count

(***************************************************************************)
(* C14: the cap of the transcript scan (SpecScan)                          *)
(***************************************************************************)
PeopleCalls == SelectSeq(request_log, LAMBDA e : e.op = "people_query")

RECURSIVE SumGot(_)
SumGot(calls) ==
    IF calls = <<>> THEN 0 ELSE Max(Head(calls).got, 0) + SumGot(Tail(calls))

\* the people on the pages the scan was handed
PeopleScanned == SumGot(PeopleCalls)

\* C14 as stated: the scan is never handed more than MAX_PEOPLE_SCAN people.
C14_ScanCap == PeopleScanned <= MaxPeopleScan

\* C14, amended: the cap is tested before a page is asked for, so the scan is
\* handed fewer than MAX_PEOPLE_SCAN + limit people; it asks for a page only
\* while fewer than MAX_PEOPLE_SCAN were handed to it, never after an empty
\* page or a query that failed with its retry, and makes no more than
\* MAX_PEOPLE_SCAN + 1 page requests.
C14_ScanCapAmended ==
    /\ PeopleScanned <= MaxPeopleScan + PeopleLimit - 1
    /\ Len(PeopleCalls) <= MaxPeopleScan + 1
    /\ \A j \in DOMAIN PeopleCalls :
          /\ SumGot(SubSeq(PeopleCalls, 1, j - 1)) < MaxPeopleScan
          /\ PeopleCalls[j].offset = SumGot(SubSeq(PeopleCalls, 1, j - 1))
          /\ PeopleCalls[j].limit = PeopleLimit
          /\ j < Len(PeopleCalls) =>
                \/ PeopleCalls[j].got > 0
                \/ PeopleCalls[j].got = -1 /\ PeopleCalls[j].sort /\ ~PeopleCalls[j + 1].sort
                     /\ PeopleCalls[j + 1].offset = PeopleCalls[j].offset

\* a scan that ended after a short page took it past the cap
C14_Witness ==
    /\ s_pc = "notes"
    /\ PeopleScanned = MaxPeopleScan + PeopleLimit - 1
    /\ \E j \in DOMAIN PeopleCalls : PeopleCalls[j].got \in 1..(PeopleLimit - 1)

=============================================================================
